---- MODULE Spec2Model ----
(***************************************************************************)
(* Model of the LSM6DSR driver (src/src/lsm6dsr.ts) working over the       *)
(* in-memory transport MockI2CWrapper (src/src/i2c-wrapper.ts) with the    *)
(* register map and tables of src/src/registers.ts.                        *)
(*                                                                         *)
(* Every driver method is one action.  A method is computed by threading   *)
(* a "bus" record through the bus transactions it performs, in program     *)
(* order; the record carries the register file, the log of transactions    *)
(* of the call and the index of the transaction (if any) at which the      *)
(* transport throws.  reset() is the one method that is modelled step by   *)
(* step, because its polling loop observes a register the device changes   *)
(* on its own.                                                             *)
(***************************************************************************)
EXTENDS Integers, Sequences, FiniteSets, TLC

(***************************************************************************)
(* Bounds of the model.                                                    *)
(***************************************************************************)
\* number of ODR enum members passed as arguments to setAccelODR/setGyroODR
MaxOdrArgs == 1
\* number of sample raw values the mock's injection helpers are fed
MaxRawSamples == 3
\* number of wrong identity bytes the WHO_AM_I register is made to hold
MaxIdSamples == 2
\* number of sample bytes the control registers are preloaded with
MaxByteSamples == 2
\* begin(): the transport may throw at any transaction up to this index
MaxFaultAt == 11
\* number of calls of close() followed
MaxCloseCalls == 2

(***************************************************************************)
(* registers.ts: addresses and identity.                                   *)
(***************************************************************************)
LSM6DSR_ID == 107        \* 0x6b
FIFO_CTRL4 == 10         \* 0x0a
WHO_AM_I == 15           \* 0x0f
CTRL1_XL == 16           \* 0x10
CTRL2_G == 17            \* 0x11
CTRL3_C == 18            \* 0x12
CTRL6_C == 21            \* 0x15
CTRL7_G == 22            \* 0x16
CTRL9_XL == 24           \* 0x18
STATUS_REG == 30         \* 0x1e
OUT_TEMP_L == 32         \* 0x20
OUTX_L_G == 34           \* 0x22
OUTX_L_A == 40           \* 0x28

\* The registers the driver and the mock's helpers touch.
RegSet == {FIFO_CTRL4, WHO_AM_I, CTRL1_XL, CTRL2_G, CTRL3_C, CTRL6_C, CTRL7_G,
           CTRL9_XL, STATUS_REG} \cup (OUT_TEMP_L .. (OUTX_L_A + 5))

(***************************************************************************)
(* registers.ts: enumerations, as their numeric codes, in declaration      *)
(* order.                                                                  *)
(***************************************************************************)
AccelODR_OFF == 0
AccelODR_Hz_104 == 4
AccelODRMembers == <<0, 11, 1, 2, 3, 4, 5, 6, 7, 8, 9, 10>>
G_2 == 0
G_16 == 1
G_4 == 2
G_8 == 3
AccelFullScaleMembers == <<G_2, G_16, G_4, G_8>>
GyroODR_OFF == 0
GyroODR_Hz_104 == 4
GyroODRMembers == <<0, 1, 2, 3, 4, 5, 6, 7, 8, 9, 10>>
DPS_250 == 0
DPS_125 == 2
DPS_500 == 4
DPS_1000 == 8
DPS_2000 == 12
DPS_4000 == 1
GyroFullScaleMembers == <<DPS_250, DPS_125, DPS_500, DPS_1000, DPS_2000, DPS_4000>>
FIFOMode_BYPASS == 0
FIFOModeMembers == <<0, 1, 3, 4, 6, 7>>

Range(s) == {s[i] : i \in DOMAIN s}
Prefix(s, n) == {s[i] : i \in {j \in DOMAIN s : j <= n}}

AccelODRSet == Range(AccelODRMembers)
GyroODRSet == Range(GyroODRMembers)
AccelFSSet == Range(AccelFullScaleMembers)
GyroFSSet == Range(GyroFullScaleMembers)

\* Arguments the callers pass: every full-scale member; of the ODR members
\* the first MaxOdrArgs in the order below (the default Hz_104 is stored by
\* the constructor in any case).
AccelODRArgOrder == <<11, 0, 10, 1, 2, 3, 5, 6, 7, 8, 9, 4>>
GyroODRArgOrder == <<10, 0, 1, 2, 3, 5, 6, 7, 8, 9, 4>>
AccelODRArgs == Prefix(AccelODRArgOrder, MaxOdrArgs)
GyroODRArgs == Prefix(GyroODRArgOrder, MaxOdrArgs)

(***************************************************************************)
(* Sensitivity tables, keyed by the full-scale member.  The source holds   *)
(* decimal literals (0.061, 4.370, ...); the model keeps each one as the   *)
(* exact fraction num/den so that products stay integers.                  *)
(***************************************************************************)
\* variant: the table is indexed by the bit code as if it were an ordinal
AccelSensitivity_ByOrdinal(fs) == [num |-> 61 * (2 ^ fs), den |-> 1000]

AccelSensitivity(fs) ==
  CASE fs = G_2 -> [num |-> 61, den |-> 1000]
    [] fs = G_4 -> [num |-> 122, den |-> 1000]
    [] fs = G_8 -> [num |-> 244, den |-> 1000]
    [] fs = G_16 -> [num |-> 488, den |-> 1000]

GyroSensitivity(fs) ==
  CASE fs = DPS_125 -> [num |-> 437, den |-> 100]
    [] fs = DPS_250 -> [num |-> 875, den |-> 100]
    [] fs = DPS_500 -> [num |-> 1750, den |-> 100]
    [] fs = DPS_1000 -> [num |-> 3500, den |-> 100]
    [] fs = DPS_2000 -> [num |-> 7000, den |-> 100]
    [] fs = DPS_4000 -> [num |-> 14000, den |-> 100]

(***************************************************************************)
(* Bit arithmetic of the source, on non-negative integers.                 *)
(***************************************************************************)
RECURSIVE BitAnd(_, _)
BitAnd(a, b) ==
  IF a = 0 \/ b = 0 THEN 0
  ELSE (a % 2) * (b % 2) + 2 * BitAnd(a \div 2, b \div 2)

RECURSIVE BitOr(_, _)
BitOr(a, b) ==
  IF a = 0 THEN b
  ELSE IF b = 0 THEN a
  ELSE (IF a % 2 = 1 \/ b % 2 = 1 THEN 1 ELSE 0) + 2 * BitOr(a \div 2, b \div 2)

Shl(a, n) == a * (2 ^ n)
\* >> on a signed number is an arithmetic shift: the floor of the quotient
Shr(a, n) == a \div (2 ^ n)
\* a signed operand of & contributes its two's-complement bits; every mask
\* of the source fits 16 bits, so the low 16 bits decide the result
AndMask(x, m) == BitAnd(x % 65536, m)
\* ~m, restricted to the byte it is and-ed with
NotMask(m) == 255 - m

(***************************************************************************)
(* State.                                                                  *)
(***************************************************************************)
VARIABLES
  regs,          \* MockI2CWrapper.registers (an absent key reads as 0)
  accelODR,      \* LSM6DSR.accelODR
  accelFS,       \* LSM6DSR.accelFS
  gyroODR,       \* LSM6DSR.gyroODR
  gyroFS,        \* LSM6DSR.gyroFS
  accelEnabled,  \* LSM6DSR.accelEnabled
  gyroEnabled,   \* LSM6DSR.gyroEnabled
  pc,            \* position of the caller: "idle", or inside reset()
  timeout,       \* reset(): the local variable timeout
  lastOp,        \* name of the last method called
  busLog,        \* bus transactions of the last method called, in order
  err,           \* how the last call ended: "none" or the error thrown
  ret,           \* what the last call returned
  injAccel,      \* last vector given to MockI2CWrapper.setRawAccelData
  injGyro,       \* last vector given to MockI2CWrapper.setRawGyroData
  closeCalls     \* number of calls of i2c.close() made so far

drv == <<accelODR, accelFS, gyroODR, gyroFS, accelEnabled, gyroEnabled>>
accelState == <<accelODR, accelFS, accelEnabled>>
gyroState == <<gyroODR, gyroFS, gyroEnabled>>
obs == <<lastOp, busLog, err, ret>>
inj == <<injAccel, injGyro>>
loop == <<pc, timeout>>
life == <<closeCalls>>
vars == <<regs, drv, loop, obs, inj, life>>

(***************************************************************************)
(* Return values.                                                          *)
(***************************************************************************)
Void == [kind |-> "void", v |-> <<>>, den |-> 1]
Thrown(info) == [kind |-> "throw", v |-> info, den |-> 1]
Bool(x) == [kind |-> "bool", v |-> <<IF x THEN 1 ELSE 0>>, den |-> 1]
Raw(x, y, z) == [kind |-> "raw", v |-> <<x, y, z>>, den |-> 1]
Scaled(x, y, z, d) == [kind |-> "vec", v |-> <<x, y, z>>, den |-> d]
Num(n, d) == [kind |-> "num", v |-> <<n>>, den |-> d]
Status(a, g, t) == [kind |-> "status", v |-> <<a, g, t>>, den |-> 1]
Flag(x) == [kind |-> "bool", v |-> <<x>>, den |-> 1]

(***************************************************************************)
(* The transport.  A bus record is the register file, the transactions     *)
(* attempted so far by the current call, and failAt: the index of the      *)
(* transaction at which the transport throws (0: it never does, as with    *)
(* the mock).  After a throw nothing more of the call runs.                *)
(***************************************************************************)
NewBus(rg, f) == [regs |-> rg, log |-> <<>>, failAt |-> f, ok |-> TRUE]

Get(rg, r) == IF r \in DOMAIN rg THEN rg[r] ELSE 0

\* variant: a transaction the transport throws on is attempted a second time
Xact_Retries(b, entry, newregs) ==
  IF ~b.ok THEN b
  ELSE IF b.failAt = Len(b.log) + 1
    THEN [b EXCEPT !.regs = newregs, !.log = Append(Append(@, entry), entry)]
    ELSE [b EXCEPT !.regs = newregs, !.log = Append(@, entry)]

Xact(b, entry, newregs) ==
  IF ~b.ok THEN b
  ELSE IF b.failAt = Len(b.log) + 1
    THEN [b EXCEPT !.ok = FALSE, !.log = Append(@, entry)]
    ELSE [b EXCEPT !.regs = newregs, !.log = Append(@, entry)]

readByte(b, r) == Xact(b, <<"R", r, Get(b.regs, r)>>, b.regs)

writeByte(b, r, v) ==
  Xact(b, <<"W", r, v>>, [b.regs EXCEPT ![r] = AndMask(v, 255)])

readBlock(b, r, len) == Xact(b, <<"B", r, len>>, b.regs)

\* the Buffer readBlock fills, as a sequence (Buffer index i is element i+1)
BlockData(rg, r, len) == [i \in 1..len |-> Get(rg, r + i - 1)]

\* variant: the two bytes are read as an unsigned number
readInt16LE_Unsigned(buf, off) == buf[off + 1] + 256 * buf[off + 2]

\* Buffer.readInt16LE
readInt16LE(buf, off) ==
  LET u == buf[off + 1] + 256 * buf[off + 2]
  IN IF u >= 32768 THEN u - 65536 ELSE u

(***************************************************************************)
(* Driver helpers: each maps the bus before to the bus after.              *)
(***************************************************************************)
\* variant: the full-scale code is not shifted into bits 3:2
writeAccelConfig_NoShift(b, odr, fs) ==
  writeByte(b, CTRL1_XL, BitOr(Shl(BitAnd(odr, 15), 4), BitAnd(fs, 3)))

writeAccelConfig(b, odr, fs) ==
  writeByte(b, CTRL1_XL, BitOr(Shl(BitAnd(odr, 15), 4), Shl(BitAnd(fs, 3), 2)))

\* variant: the full-scale code is masked to three bits
writeGyroConfig_Mask7(b, odr, fs) ==
  writeByte(b, CTRL2_G, BitOr(Shl(BitAnd(odr, 15), 4), BitAnd(fs, 7)))

writeGyroConfig(b, odr, fs) ==
  writeByte(b, CTRL2_G, BitOr(Shl(BitAnd(odr, 15), 4), BitAnd(fs, 15)))

disableI3C(b) ==
  LET ctrl9 == Get(b.regs, CTRL9_XL)
  IN writeByte(readByte(b, CTRL9_XL), CTRL9_XL, BitOr(ctrl9, 2))

setAutoIncrement(b, enable) ==
  LET ctrl3 == Get(b.regs, CTRL3_C)
  IN writeByte(readByte(b, CTRL3_C), CTRL3_C,
               IF enable THEN BitOr(ctrl3, 4) ELSE BitAnd(ctrl3, NotMask(4)))

setBlockDataUpdate(b, enable) ==
  LET ctrl3 == Get(b.regs, CTRL3_C)
  IN writeByte(readByte(b, CTRL3_C), CTRL3_C,
               IF enable THEN BitOr(ctrl3, 64) ELSE BitAnd(ctrl3, NotMask(64)))

\* variant: the mode is or-ed in without clearing the field first
setFIFOMode_NoClear(b, mode) ==
  LET fifoCtrl4 == Get(b.regs, FIFO_CTRL4)
  IN writeByte(readByte(b, FIFO_CTRL4), FIFO_CTRL4,
               BitOr(fifoCtrl4, BitAnd(mode, 7)))

setFIFOMode(b, mode) ==
  LET fifoCtrl4 == Get(b.regs, FIFO_CTRL4)
  IN writeByte(readByte(b, FIFO_CTRL4), FIFO_CTRL4,
               BitOr(BitAnd(fifoCtrl4, 248), BitAnd(mode, 7)))

\* variant: block-data-update is set before auto-increment
beginConfigure_BduFirst(b, afs, gfs) ==
  writeGyroConfig(
    writeAccelConfig(
      setFIFOMode(
        setAutoIncrement(
          setBlockDataUpdate(disableI3C(b), TRUE),
          TRUE),
        FIFOMode_BYPASS),
      AccelODR_OFF, afs),
    GyroODR_OFF, gfs)

\* begin(), after the identity check
beginConfigure(b, afs, gfs) ==
  writeGyroConfig(
    writeAccelConfig(
      setFIFOMode(
        setBlockDataUpdate(
          setAutoIncrement(disableI3C(b), TRUE),
          TRUE),
        FIFOMode_BYPASS),
      AccelODR_OFF, afs),
    GyroODR_OFF, gfs)

IoError(b) == IF b.ok THEN "none" ELSE "io"
Outcome(b, value) == IF b.ok THEN value ELSE Thrown(<<>>)

Observed(name, b, e, r) ==
  /\ lastOp' = name
  /\ busLog' = b.log
  /\ err' = e
  /\ ret' = r

(***************************************************************************)
(* Initial state: LSM6DSR.withI2C(new MockI2CWrapper(address), config).    *)
(***************************************************************************)
FreshRegs == [r \in RegSet |-> IF r = WHO_AM_I THEN LSM6DSR_ID ELSE 0]

Constructed(aodrs, afss, godrs, gfss) ==
  /\ regs = FreshRegs
  /\ accelODR \in aodrs
  /\ accelFS \in afss
  /\ gyroODR \in godrs
  /\ gyroFS \in gfss
  /\ accelEnabled = FALSE
  /\ gyroEnabled = FALSE
  /\ pc = "idle"
  /\ timeout = 0
  /\ lastOp = "withI2C"
  /\ busLog = <<>>
  /\ err = "none"
  /\ ret = Void
  /\ injAccel = <<0, 0, 0>>
  /\ injGyro = <<0, 0, 0>>
  /\ closeCalls = 0

\* any configuration given
Init ==
  Constructed(AccelODRArgs \cup {AccelODR_Hz_104}, AccelFSSet,
              GyroODRArgs \cup {GyroODR_Hz_104}, GyroFSSet)

\* any member of each enumeration given
InitAnyConfig == Constructed(AccelODRSet, AccelFSSet, GyroODRSet, GyroFSSet)

\* no ODR given: the defaults; any full scale
InitAnyFS ==
  Constructed({AccelODR_Hz_104}, AccelFSSet, {GyroODR_Hz_104}, GyroFSSet)

\* no configuration given: the defaults
InitDefault ==
  Constructed({AccelODR_Hz_104}, {G_2}, {GyroODR_Hz_104}, {DPS_2000})

(***************************************************************************)
(* begin()                                                                 *)
(***************************************************************************)
\* variant: the identity is compared after the configuration is written
Begin_ChecksLate(f) ==
  /\ pc = "idle"
  /\ LET b1 == readByte(NewBus(regs, f), WHO_AM_I)
         whoAmI == Get(regs, WHO_AM_I)
         b == beginConfigure(b1, accelFS, gyroFS)
     IN IF ~b.ok
          THEN /\ Observed("begin", b, "io", Thrown(<<>>))
               /\ regs' = b.regs
               /\ UNCHANGED drv
        ELSE IF whoAmI # LSM6DSR_ID
          THEN /\ Observed("begin", b, "not_found", Thrown(<<whoAmI, LSM6DSR_ID>>))
               /\ regs' = b.regs
               /\ UNCHANGED drv
        ELSE /\ regs' = b.regs
             /\ accelEnabled' = FALSE
             /\ gyroEnabled' = FALSE
             /\ UNCHANGED <<accelODR, accelFS, gyroODR, gyroFS>>
             /\ Observed("begin", b, "none", Bool(TRUE))
  /\ UNCHANGED <<loop, inj, life>>

\* variant: the enabled flags are not cleared at the end
Begin_KeepsFlags(f) ==
  /\ pc = "idle"
  /\ LET b1 == readByte(NewBus(regs, f), WHO_AM_I)
         whoAmI == Get(regs, WHO_AM_I)
     IN IF ~b1.ok
          THEN /\ Observed("begin", b1, "io", Thrown(<<>>))
               /\ UNCHANGED <<regs, drv>>
        ELSE IF whoAmI # LSM6DSR_ID
          THEN /\ Observed("begin", b1, "not_found", Thrown(<<whoAmI, LSM6DSR_ID>>))
               /\ UNCHANGED <<regs, drv>>
        ELSE LET b == beginConfigure(b1, accelFS, gyroFS)
             IN /\ regs' = b.regs
                /\ UNCHANGED drv
                /\ Observed("begin", b, IoError(b), Outcome(b, Bool(TRUE)))
  /\ UNCHANGED <<loop, inj, life>>

Begin(f) ==
  /\ pc = "idle"
  /\ LET b1 == readByte(NewBus(regs, f), WHO_AM_I)
         whoAmI == Get(regs, WHO_AM_I)
     IN IF ~b1.ok
          THEN /\ Observed("begin", b1, "io", Thrown(<<>>))
               /\ UNCHANGED <<regs, drv>>
        ELSE IF whoAmI # LSM6DSR_ID
          THEN /\ Observed("begin", b1, "not_found", Thrown(<<whoAmI, LSM6DSR_ID>>))
               /\ UNCHANGED <<regs, drv>>
        ELSE LET b == beginConfigure(b1, accelFS, gyroFS)
             IN /\ regs' = b.regs
                /\ accelEnabled' = (IF b.ok THEN FALSE ELSE accelEnabled)
                /\ gyroEnabled' = (IF b.ok THEN FALSE ELSE gyroEnabled)
                /\ UNCHANGED <<accelODR, accelFS, gyroODR, gyroFS>>
                /\ Observed("begin", b, IoError(b), Outcome(b, Bool(TRUE)))
  /\ UNCHANGED <<loop, inj, life>>

(***************************************************************************)
(* Accelerometer configuration                                             *)
(***************************************************************************)
EnableAccel(f) ==
  /\ pc = "idle"
  /\ LET b == writeAccelConfig(NewBus(regs, f), accelODR, accelFS)
     IN /\ regs' = b.regs
        /\ accelEnabled' = (IF b.ok THEN TRUE ELSE accelEnabled)
        /\ Observed("enableAccel", b, IoError(b), Outcome(b, Void))
  /\ UNCHANGED <<accelODR, accelFS, gyroState, loop, inj, life>>

\* variant: disabling also stores ODR = OFF
DisableAccel_StoresOff(f) ==
  /\ pc = "idle"
  /\ LET b == writeAccelConfig(NewBus(regs, f), AccelODR_OFF, accelFS)
     IN /\ regs' = b.regs
        /\ accelEnabled' = (IF b.ok THEN FALSE ELSE accelEnabled)
        /\ Observed("disableAccel", b, IoError(b), Outcome(b, Void))
  /\ accelODR' = AccelODR_OFF
  /\ UNCHANGED <<accelFS, gyroState, loop, inj, life>>

DisableAccel(f) ==
  /\ pc = "idle"
  /\ LET b == writeAccelConfig(NewBus(regs, f), AccelODR_OFF, accelFS)
     IN /\ regs' = b.regs
        /\ accelEnabled' = (IF b.ok THEN FALSE ELSE accelEnabled)
        /\ Observed("disableAccel", b, IoError(b), Outcome(b, Void))
  /\ UNCHANGED <<accelODR, accelFS, gyroState, loop, inj, life>>

\* variant: a rate change rewrites both config registers
SetAccelODR_RewritesBoth(odr, f) ==
  /\ pc = "idle"
  /\ accelODR' = odr
  /\ LET b0 == NewBus(regs, f)
         b == IF accelEnabled
                THEN writeGyroConfig(writeAccelConfig(b0, odr, accelFS), gyroODR, gyroFS)
                ELSE b0
     IN /\ regs' = b.regs
        /\ Observed("setAccelODR", b, IoError(b), Outcome(b, Void))
  /\ UNCHANGED <<accelFS, accelEnabled, gyroState, loop, inj, life>>

SetAccelODR(odr, f) ==
  /\ pc = "idle"
  /\ accelODR' = odr
  /\ LET b0 == NewBus(regs, f)
         b == IF accelEnabled THEN writeAccelConfig(b0, odr, accelFS) ELSE b0
     IN /\ regs' = b.regs
        /\ Observed("setAccelODR", b, IoError(b), Outcome(b, Void))
  /\ UNCHANGED <<accelFS, accelEnabled, gyroState, loop, inj, life>>

\* variant: the register is written from the full scale stored before
SetAccelFullScale_WritesStale(fs, f) ==
  /\ pc = "idle"
  /\ accelFS' = fs
  /\ LET b0 == NewBus(regs, f)
         b == IF accelEnabled THEN writeAccelConfig(b0, accelODR, accelFS) ELSE b0
     IN /\ regs' = b.regs
        /\ Observed("setAccelFullScale", b, IoError(b), Outcome(b, Void))
  /\ UNCHANGED <<accelODR, accelEnabled, gyroState, loop, inj, life>>

SetAccelFullScale(fs, f) ==
  /\ pc = "idle"
  /\ accelFS' = fs
  /\ LET b0 == NewBus(regs, f)
         b == IF accelEnabled THEN writeAccelConfig(b0, accelODR, fs) ELSE b0
     IN /\ regs' = b.regs
        /\ Observed("setAccelFullScale", b, IoError(b), Outcome(b, Void))
  /\ UNCHANGED <<accelODR, accelEnabled, gyroState, loop, inj, life>>

(***************************************************************************)
(* Gyroscope configuration                                                 *)
(***************************************************************************)
EnableGyro(f) ==
  /\ pc = "idle"
  /\ LET b == writeGyroConfig(NewBus(regs, f), gyroODR, gyroFS)
     IN /\ regs' = b.regs
        /\ gyroEnabled' = (IF b.ok THEN TRUE ELSE gyroEnabled)
        /\ Observed("enableGyro", b, IoError(b), Outcome(b, Void))
  /\ UNCHANGED <<gyroODR, gyroFS, accelState, loop, inj, life>>

DisableGyro(f) ==
  /\ pc = "idle"
  /\ LET b == writeGyroConfig(NewBus(regs, f), GyroODR_OFF, gyroFS)
     IN /\ regs' = b.regs
        /\ gyroEnabled' = (IF b.ok THEN FALSE ELSE gyroEnabled)
        /\ Observed("disableGyro", b, IoError(b), Outcome(b, Void))
  /\ UNCHANGED <<gyroODR, gyroFS, accelState, loop, inj, life>>

\* variant: the register is written whether or not the gyroscope is enabled
SetGyroODR_AlwaysWrites(odr, f) ==
  /\ pc = "idle"
  /\ gyroODR' = odr
  /\ LET b == writeGyroConfig(NewBus(regs, f), odr, gyroFS)
     IN /\ regs' = b.regs
        /\ Observed("setGyroODR", b, IoError(b), Outcome(b, Void))
  /\ UNCHANGED <<gyroFS, gyroEnabled, accelState, loop, inj, life>>

SetGyroODR(odr, f) ==
  /\ pc = "idle"
  /\ gyroODR' = odr
  /\ LET b0 == NewBus(regs, f)
         b == IF gyroEnabled THEN writeGyroConfig(b0, odr, gyroFS) ELSE b0
     IN /\ regs' = b.regs
        /\ Observed("setGyroODR", b, IoError(b), Outcome(b, Void))
  /\ UNCHANGED <<gyroFS, gyroEnabled, accelState, loop, inj, life>>

SetGyroFullScale(fs, f) ==
  /\ pc = "idle"
  /\ gyroFS' = fs
  /\ LET b0 == NewBus(regs, f)
         b == IF gyroEnabled THEN writeGyroConfig(b0, gyroODR, fs) ELSE b0
     IN /\ regs' = b.regs
        /\ Observed("setGyroFullScale", b, IoError(b), Outcome(b, Void))
  /\ UNCHANGED <<gyroODR, gyroEnabled, accelState, loop, inj, life>>

(***************************************************************************)
(* The test harness writing a register of the mock directly                *)
(* (MockI2CWrapper.writeByte, not through the driver).                     *)
(***************************************************************************)
MockWriteByte(r, v) ==
  /\ pc = "idle"
  /\ regs' = [regs EXCEPT ![r] = AndMask(v, 255)]
  /\ lastOp' = "mock.writeByte"
  /\ busLog' = <<>>
  /\ err' = "none"
  /\ ret' = Void
  /\ UNCHANGED <<drv, loop, inj, life>>

\* identity bytes the harness makes WHO_AM_I hold
WrongIdList == <<0, 106, 255, 108>>
IdSamples == {LSM6DSR_ID} \cup Prefix(WrongIdList, MaxIdSamples)

(***************************************************************************)
(* Spec: the configuration state machine over the mock transport.          *)
(***************************************************************************)
Next ==
  \/ Begin(0)
  \/ EnableAccel(0)
  \/ DisableAccel(0)
  \/ \E odr \in AccelODRArgs : SetAccelODR(odr, 0)
  \/ \E fs \in AccelFSSet : SetAccelFullScale(fs, 0)
  \/ EnableGyro(0)
  \/ DisableGyro(0)
  \/ \E odr \in GyroODRArgs : SetGyroODR(odr, 0)
  \/ \E fs \in GyroFSSet : SetGyroFullScale(fs, 0)

Spec == Init /\ [][Next]_vars

(***************************************************************************)
(* SpecEnable: enabling and disabling, for every (ODR, full scale) the     *)
(* constructor can store.                                                  *)
(***************************************************************************)
NextEnable ==
  \/ EnableAccel(0)
  \/ DisableAccel(0)
  \/ EnableGyro(0)
  \/ DisableGyro(0)

SpecEnable == InitAnyConfig /\ [][NextEnable]_vars

(***************************************************************************)
(* SpecBegin: begin() from every prior state, over registers that hold     *)
(* arbitrary contents and an identity register that may be wrong.          *)
(***************************************************************************)
ByteSampleList == <<255, 0, 165, 90>>
ByteSamples == Prefix(ByteSampleList, MaxByteSamples)
BeginRegs == {CTRL9_XL, CTRL3_C, FIFO_CTRL4}

NextBegin ==
  \/ Begin(0)
  \/ EnableAccel(0)
  \/ EnableGyro(0)
  \/ \E v \in IdSamples : MockWriteByte(WHO_AM_I, v)
  \/ \E r \in BeginRegs, v \in ByteSamples : MockWriteByte(r, v)

SpecBegin == InitAnyFS /\ [][NextBegin]_vars

(***************************************************************************)
(* SpecBeginFault: begin() over a transport that may throw at any one of   *)
(* its transactions.                                                       *)
(***************************************************************************)
FaultPoints == 0..MaxFaultAt

NextBeginFault ==
  \/ \E f \in FaultPoints : Begin(f)
  \/ EnableAccel(0)
  \/ EnableGyro(0)
  \/ \E r \in BeginRegs, v \in ByteSamples : MockWriteByte(r, v)

SpecBeginFault == InitDefault /\ [][NextBeginFault]_vars

(***************************************************************************)
(* Reading.                                                                *)
(***************************************************************************)
\* variant: the sensitivity is looked up by the full scale the device holds
getAccelSensitivity_FromDevice ==
  AccelSensitivity(BitAnd(Shr(Get(regs, CTRL1_XL), 2), 3))

getAccelSensitivity == AccelSensitivity(accelFS)
getGyroSensitivity == GyroSensitivity(gyroFS)

\* the RawVector3D decoded from a 6-byte buffer
Decode3(buf) == <<readInt16LE(buf, 0), readInt16LE(buf, 2), readInt16LE(buf, 4)>>

ReadRawAccel(f) ==
  /\ pc = "idle"
  /\ LET b == readBlock(NewBus(regs, f), OUTX_L_A, 6)
         raw == Decode3(BlockData(regs, OUTX_L_A, 6))
     IN Observed("readRawAccel", b, IoError(b), Outcome(b, Raw(raw[1], raw[2], raw[3])))
  /\ UNCHANGED <<regs, drv, loop, inj, life>>

ReadAccel(f) ==
  /\ pc = "idle"
  /\ LET b == readBlock(NewBus(regs, f), OUTX_L_A, 6)
         raw == Decode3(BlockData(regs, OUTX_L_A, 6))
         sensitivity == getAccelSensitivity
     IN Observed("readAccel", b, IoError(b),
                 Outcome(b, Scaled(raw[1] * sensitivity.num, raw[2] * sensitivity.num,
                                   raw[3] * sensitivity.num, sensitivity.den)))
  /\ UNCHANGED <<regs, drv, loop, inj, life>>

ReadRawGyro(f) ==
  /\ pc = "idle"
  /\ LET b == readBlock(NewBus(regs, f), OUTX_L_G, 6)
         raw == Decode3(BlockData(regs, OUTX_L_G, 6))
     IN Observed("readRawGyro", b, IoError(b), Outcome(b, Raw(raw[1], raw[2], raw[3])))
  /\ UNCHANGED <<regs, drv, loop, inj, life>>

ReadGyro(f) ==
  /\ pc = "idle"
  /\ LET b == readBlock(NewBus(regs, f), OUTX_L_G, 6)
         raw == Decode3(BlockData(regs, OUTX_L_G, 6))
         sensitivity == getGyroSensitivity
     IN Observed("readGyro", b, IoError(b),
                 Outcome(b, Scaled(raw[1] * sensitivity.num, raw[2] * sensitivity.num,
                                   raw[3] * sensitivity.num, sensitivity.den)))
  /\ UNCHANGED <<regs, drv, loop, inj, life>>

(***************************************************************************)
(* The mock's injection helpers.                                           *)
(***************************************************************************)
\* the six bytes the helpers store from register base on
Encode3(rg, base, x, y, z) ==
  [rg EXCEPT ![base] = AndMask(x, 255),
             ![base + 1] = AndMask(Shr(x, 8), 255),
             ![base + 2] = AndMask(y, 255),
             ![base + 3] = AndMask(Shr(y, 8), 255),
             ![base + 4] = AndMask(z, 255),
             ![base + 5] = AndMask(Shr(z, 8), 255)]

SetRawAccelData(x, y, z) ==
  /\ pc = "idle"
  /\ regs' = Encode3(regs, OUTX_L_A, x, y, z)
  /\ injAccel' = <<x, y, z>>
  /\ lastOp' = "mock.setRawAccelData"
  /\ busLog' = <<>>
  /\ err' = "none"
  /\ ret' = Void
  /\ UNCHANGED <<drv, loop, injGyro, life>>

SetRawGyroData(x, y, z) ==
  /\ pc = "idle"
  /\ regs' = Encode3(regs, OUTX_L_G, x, y, z)
  /\ injGyro' = <<x, y, z>>
  /\ lastOp' = "mock.setRawGyroData"
  /\ busLog' = <<>>
  /\ err' = "none"
  /\ ret' = Void
  /\ UNCHANGED <<drv, loop, injAccel, life>>

\* Sample raw values: the ends of the signed 16-bit range, one value
\* outside it, values that tell the two bytes apart.  Vectors take three
\* consecutive samples, so that their components differ.
RawSampleList == <<-32768, 255, 40000, -1, 32767, 256, -256, 1, 0, -32769>>
RawCount == IF MaxRawSamples < Len(RawSampleList) THEN MaxRawSamples ELSE Len(RawSampleList)
RawVectors ==
  {<<RawSampleList[i], RawSampleList[(i % RawCount) + 1],
     RawSampleList[((i + 1) % RawCount) + 1]>> : i \in 1..RawCount}

NextRead ==
  \/ Begin(0)
  \/ \E fs \in AccelFSSet : SetAccelFullScale(fs, 0)
  \/ \E fs \in GyroFSSet : SetGyroFullScale(fs, 0)
  \/ \E v \in RawVectors : SetRawAccelData(v[1], v[2], v[3])
  \/ \E v \in RawVectors : SetRawGyroData(v[1], v[2], v[3])
  \/ ReadRawAccel(0)
  \/ ReadAccel(0)
  \/ ReadRawGyro(0)
  \/ ReadGyro(0)

SpecRead == InitDefault /\ [][NextRead]_vars

(***************************************************************************)
(* Public read-modify-write setters of CTRL3_C.                            *)
(***************************************************************************)
SetAutoIncrement(enable, f) ==
  /\ pc = "idle"
  /\ LET b == setAutoIncrement(NewBus(regs, f), enable)
     IN /\ regs' = b.regs
        /\ Observed("setAutoIncrement", b, IoError(b), Outcome(b, Void))
  /\ UNCHANGED <<drv, loop, inj, life>>

SetBlockDataUpdate(enable, f) ==
  /\ pc = "idle"
  /\ LET b == setBlockDataUpdate(NewBus(regs, f), enable)
     IN /\ regs' = b.regs
        /\ Observed("setBlockDataUpdate", b, IoError(b), Outcome(b, Void))
  /\ UNCHANGED <<drv, loop, inj, life>>

(***************************************************************************)
(* reset(), step by step.  ResetStart is the read-modify-write that sets   *)
(* SW_RESET, ResetPoll one iteration of the while loop, ResetFinish the    *)
(* test after the loop.  The device clears SW_RESET on its own when its    *)
(* reset is complete (DeviceClearsReset); the mock never does.             *)
(***************************************************************************)
ResetBudget == 100

ResetStart ==
  /\ pc = "idle"
  /\ LET ctrl3 == Get(regs, CTRL3_C)
         b == writeByte(readByte(NewBus(regs, 0), CTRL3_C), CTRL3_C, BitOr(ctrl3, 1))
     IN /\ regs' = b.regs
        /\ Observed("reset", b, "none", Void)
  /\ timeout' = ResetBudget
  /\ pc' = "reset_poll"
  /\ UNCHANGED <<drv, inj, life>>

\* variant: the budget is decremented before the bit is tested
ResetPoll_DecrementsFirst ==
  /\ pc = "reset_poll"
  /\ timeout > 0
  /\ LET ctrl3 == Get(regs, CTRL3_C)
     IN /\ busLog' = Append(busLog, <<"R", CTRL3_C, ctrl3>>)
        /\ timeout' = timeout - 1
        /\ IF BitAnd(ctrl3, 1) = 0
             THEN pc' = "reset_check"
             ELSE pc' = pc
  /\ UNCHANGED <<regs, drv, lastOp, err, ret, inj, life>>

ResetPoll ==
  /\ pc = "reset_poll"
  /\ timeout > 0
  /\ LET ctrl3 == Get(regs, CTRL3_C)
     IN /\ busLog' = Append(busLog, <<"R", CTRL3_C, ctrl3>>)
        /\ IF BitAnd(ctrl3, 1) = 0
             THEN pc' = "reset_check" /\ timeout' = timeout
             ELSE pc' = pc /\ timeout' = timeout - 1
  /\ UNCHANGED <<regs, drv, lastOp, err, ret, inj, life>>

ResetFinish ==
  /\ \/ pc = "reset_check"
     \/ pc = "reset_poll" /\ ~(timeout > 0)
  /\ pc' = "idle"
  /\ IF timeout = 0
       THEN err' = "timeout" /\ ret' = Thrown(<<>>)
       ELSE err' = "none" /\ ret' = Void
  /\ UNCHANGED <<regs, drv, timeout, lastOp, busLog, inj, life>>

DeviceClearsReset ==
  /\ pc = "reset_poll"
  /\ BitAnd(Get(regs, CTRL3_C), 1) = 1
  /\ regs' = [regs EXCEPT ![CTRL3_C] = BitAnd(@, NotMask(1))]
  /\ UNCHANGED <<drv, loop, obs, inj, life>>

NextReset ==
  \/ ResetStart
  \/ ResetPoll
  \/ ResetFinish
  \/ DeviceClearsReset
  \/ \E e \in BOOLEAN : SetAutoIncrement(e, 0)
  \/ \E e \in BOOLEAN : SetBlockDataUpdate(e, 0)

\* the caller runs reset() to its end: a synchronous loop is never suspended
SpecReset ==
  /\ InitDefault
  /\ [][NextReset]_vars
  /\ WF_vars(ResetPoll)
  /\ WF_vars(ResetFinish)

(***************************************************************************)
(* Vocabulary of the properties: register fields and packed values, stated *)
(* arithmetically.                                                         *)
(***************************************************************************)
Bit(v, k) == (v \div (2 ^ k)) % 2
PackAccel(odr, fs) == (odr % 16) * 16 + (fs % 4) * 4
PackGyro(odr, fs) == (odr % 16) * 16 + (fs % 16)
OdrNibble(v) == v \div 16
AccelFsBits(v) == (v \div 4) % 4
GyroFsBits(v) == v % 16
\* the step is a call of (or, for reset, the start of) the method named
Called(name) == lastOp' = name /\ pc = "idle"
OneWrite(r, v) == << <<"W", r, v>> >>
Writes(log) == SelectSeq(log, LAMBDA e : e[1] = "W")
\* what enableAccel() / enableGyro() would put on the bus in this state
AccelEnableValue == writeAccelConfig(NewBus(regs, 0), accelODR, accelFS).log[1][3]
GyroEnableValue == writeGyroConfig(NewBus(regs, 0), gyroODR, gyroFS).log[1][3]

(***************************************************************************)
(* C1.  enableAccel() writes CTRL1_XL = ((ODR & 0xF) << 4) | ((FS & 3) <<  *)
(* 2), low two bits zero, and enableGyro() writes CTRL2_G = ((ODR & 0xF)   *)
(* << 4) | (FS & 0xF), each from the values stored when it is called, and  *)
(* the subsystem is then marked enabled; ODR = Hz_104 with FS = G_2 gives  *)
(* 0x40.                                                                   *)
(***************************************************************************)
C1_AccelStep ==
  Called("enableAccel") =>
    /\ busLog' = OneWrite(CTRL1_XL, PackAccel(accelODR, accelFS))
    /\ regs' = [regs EXCEPT ![CTRL1_XL] = PackAccel(accelODR, accelFS)]
    /\ regs'[CTRL1_XL] % 4 = 0
    /\ accelEnabled'
    /\ err' = "none"
    /\ (accelODR = AccelODR_Hz_104 /\ accelFS = G_2 => regs'[CTRL1_XL] = 64)

C1_GyroStep ==
  Called("enableGyro") =>
    /\ busLog' = OneWrite(CTRL2_G, PackGyro(gyroODR, gyroFS))
    /\ regs' = [regs EXCEPT ![CTRL2_G] = PackGyro(gyroODR, gyroFS)]
    /\ gyroEnabled'
    /\ err' = "none"

C1_EnableWritesPackedConfig == [][C1_AccelStep /\ C1_GyroStep]_vars

C1_Witness ==
  /\ lastOp = "enableGyro"
  /\ accelEnabled /\ gyroEnabled
  /\ accelODR = AccelODR_Hz_104 /\ accelFS = G_2 /\ regs[CTRL1_XL] = 64
  /\ gyroODR = 9 /\ gyroFS = DPS_1000 /\ regs[CTRL2_G] = 152

(***************************************************************************)
(* C2.  disableAccel() / disableGyro() writes the config register with     *)
(* ODR nibble 0 and the stored full scale in the full-scale field (for a   *)
(* subsystem that was enabled: the field the register already held), marks *)
(* the subsystem disabled and leaves stored ODR and full scale as they     *)
(* were, so the value an enable writes is the same after as before.        *)
(***************************************************************************)
C2_AccelStep ==
  Called("disableAccel") =>
    /\ busLog' = OneWrite(CTRL1_XL, PackAccel(0, accelFS))
    /\ regs' = [regs EXCEPT ![CTRL1_XL] = PackAccel(0, accelFS)]
    /\ OdrNibble(regs'[CTRL1_XL]) = 0
    /\ AccelFsBits(regs'[CTRL1_XL]) = accelFS
    /\ (accelEnabled => AccelFsBits(regs'[CTRL1_XL]) = AccelFsBits(regs[CTRL1_XL]))
    /\ ~accelEnabled'
    /\ accelODR' = accelODR /\ accelFS' = accelFS
    /\ AccelEnableValue' = AccelEnableValue
    /\ AccelEnableValue' = PackAccel(accelODR, accelFS)

C2_GyroStep ==
  Called("disableGyro") =>
    /\ busLog' = OneWrite(CTRL2_G, PackGyro(0, gyroFS))
    /\ regs' = [regs EXCEPT ![CTRL2_G] = PackGyro(0, gyroFS)]
    /\ OdrNibble(regs'[CTRL2_G]) = 0
    /\ GyroFsBits(regs'[CTRL2_G]) = gyroFS
    /\ (gyroEnabled => GyroFsBits(regs'[CTRL2_G]) = GyroFsBits(regs[CTRL2_G]))
    /\ ~gyroEnabled'
    /\ gyroODR' = gyroODR /\ gyroFS' = gyroFS
    /\ GyroEnableValue' = GyroEnableValue
    /\ GyroEnableValue' = PackGyro(gyroODR, gyroFS)

C2_DisableKeepsStoredSettings == [][C2_AccelStep /\ C2_GyroStep]_vars

C2_Witness ==
  /\ lastOp = "disableAccel"
  /\ ~accelEnabled
  /\ accelODR = 11 /\ accelFS = G_8
  /\ regs[CTRL1_XL] = 12
  /\ gyroEnabled /\ regs[CTRL2_G] = GyroEnableValue

(***************************************************************************)
(* C3.  While a subsystem is disabled, setXODR / setXFullScale does no bus *)
(* transaction: no register changes, only the stored value does.  (As      *)
(* amended.)  The new ODR reaches the device at the next enable of the     *)
(* subsystem and not before; the new full scale reaches it at the next     *)
(* write of the subsystem's config register, which is the next enable,     *)
(* disable or begin().                                                     *)
(***************************************************************************)
C3_NoBusAccess ==
  /\ ~accelEnabled /\ Called("setAccelODR") =>
       /\ busLog' = <<>> /\ regs' = regs /\ err' = "none"
       /\ accelFS' = accelFS /\ accelEnabled' = accelEnabled /\ gyroState' = gyroState
  /\ ~accelEnabled /\ Called("setAccelFullScale") =>
       /\ busLog' = <<>> /\ regs' = regs /\ err' = "none"
       /\ accelODR' = accelODR /\ accelEnabled' = accelEnabled /\ gyroState' = gyroState
  /\ ~gyroEnabled /\ Called("setGyroODR") =>
       /\ busLog' = <<>> /\ regs' = regs /\ err' = "none"
       /\ gyroFS' = gyroFS /\ gyroEnabled' = gyroEnabled /\ accelState' = accelState
  /\ ~gyroEnabled /\ Called("setGyroFullScale") =>
       /\ busLog' = <<>> /\ regs' = regs /\ err' = "none"
       /\ gyroODR' = gyroODR /\ gyroEnabled' = gyroEnabled /\ accelState' = accelState

\* a stored value the device does not hold yet, in a disabled subsystem
AccelOdrPending == ~accelEnabled /\ OdrNibble(regs[CTRL1_XL]) # accelODR
AccelFsPending == ~accelEnabled /\ AccelFsBits(regs[CTRL1_XL]) # accelFS
GyroOdrPending == ~gyroEnabled /\ OdrNibble(regs[CTRL2_G]) # gyroODR
GyroFsPending == ~gyroEnabled /\ GyroFsBits(regs[CTRL2_G]) # gyroFS

\* a pending ODR stays off the device through every step but the enable
C3_OdrWaitsForEnable ==
  /\ AccelOdrPending /\ accelODR' = accelODR /\ ~Called("enableAccel") =>
       OdrNibble(regs'[CTRL1_XL]) # accelODR
  /\ GyroOdrPending /\ gyroODR' = gyroODR /\ ~Called("enableGyro") =>
       OdrNibble(regs'[CTRL2_G]) # gyroODR

\* a full scale just set on a disabled subsystem stays off the device
\* through every step but the enable
C3_FsWaitsForEnable ==
  /\ lastOp = "setAccelFullScale" /\ AccelFsPending /\ accelFS' = accelFS
       /\ ~Called("enableAccel") =>
       AccelFsBits(regs'[CTRL1_XL]) # accelFS
  /\ lastOp = "setGyroFullScale" /\ GyroFsPending /\ gyroFS' = gyroFS
       /\ ~Called("enableGyro") =>
       GyroFsBits(regs'[CTRL2_G]) # gyroFS

\* a pending full scale reaches the device by enable, disable or begin only
C3_FsWaitsForConfigWrite ==
  /\ AccelFsPending /\ accelFS' = accelFS /\ AccelFsBits(regs'[CTRL1_XL]) = accelFS =>
       lastOp' \in {"enableAccel", "disableAccel", "begin"}
  /\ GyroFsPending /\ gyroFS' = gyroFS /\ GyroFsBits(regs'[CTRL2_G]) = gyroFS =>
       lastOp' \in {"enableGyro", "disableGyro", "begin"}

\* the claim as first stated
C3_Original ==
  [][C3_NoBusAccess /\ C3_OdrWaitsForEnable /\ C3_FsWaitsForEnable]_vars

C3_DisabledSetIsMemoryOnly ==
  [][C3_NoBusAccess /\ C3_OdrWaitsForEnable /\ C3_FsWaitsForConfigWrite]_vars

C3_Witness ==
  /\ lastOp = "setGyroODR"
  /\ busLog = <<>>
  /\ regs[CTRL3_C] = 68
  /\ GyroOdrPending /\ GyroFsPending
  /\ AccelFsPending /\ AccelOdrPending

(***************************************************************************)
(* C4.  While a subsystem is enabled, setXODR(o) writes the config         *)
(* register at once from o and the stored full scale, setXFullScale(f)     *)
(* from the stored ODR and f; the stored value becomes the argument and    *)
(* the subsystem stays enabled.                                            *)
(***************************************************************************)
C4_AccelStep ==
  /\ accelEnabled /\ Called("setAccelODR") =>
       \A o \in AccelODRSet : SetAccelODR(o, 0) =>
         /\ accelODR' = o /\ accelFS' = accelFS /\ accelEnabled'
         /\ busLog' = OneWrite(CTRL1_XL, PackAccel(o, accelFS))
         /\ regs' = [regs EXCEPT ![CTRL1_XL] = PackAccel(o, accelFS)]
  /\ accelEnabled /\ Called("setAccelFullScale") =>
       \A fs \in AccelFSSet : SetAccelFullScale(fs, 0) =>
         /\ accelFS' = fs /\ accelODR' = accelODR /\ accelEnabled'
         /\ busLog' = OneWrite(CTRL1_XL, PackAccel(accelODR, fs))
         /\ regs' = [regs EXCEPT ![CTRL1_XL] = PackAccel(accelODR, fs)]

C4_GyroStep ==
  /\ gyroEnabled /\ Called("setGyroODR") =>
       \A o \in GyroODRSet : SetGyroODR(o, 0) =>
         /\ gyroODR' = o /\ gyroFS' = gyroFS /\ gyroEnabled'
         /\ busLog' = OneWrite(CTRL2_G, PackGyro(o, gyroFS))
         /\ regs' = [regs EXCEPT ![CTRL2_G] = PackGyro(o, gyroFS)]
  /\ gyroEnabled /\ Called("setGyroFullScale") =>
       \A fs \in GyroFSSet : SetGyroFullScale(fs, 0) =>
         /\ gyroFS' = fs /\ gyroODR' = gyroODR /\ gyroEnabled'
         /\ busLog' = OneWrite(CTRL2_G, PackGyro(gyroODR, fs))
         /\ regs' = [regs EXCEPT ![CTRL2_G] = PackGyro(gyroODR, fs)]

C4_EnabledSetWritesAtOnce == [][C4_AccelStep /\ C4_GyroStep]_vars

C4_Witness ==
  /\ lastOp = "setAccelFullScale"
  /\ accelEnabled
  /\ accelODR = 11 /\ accelFS = G_8
  /\ busLog = OneWrite(CTRL1_XL, 188)
  /\ regs[CTRL1_XL] = 188

(***************************************************************************)
(* C5.  When WHO_AM_I holds anything but 0x6B, begin() throws, reporting   *)
(* the byte read and the byte expected, and changes nothing: no register   *)
(* is written, stored ODR and full scale and both enabled flags are as     *)
(* before.                                                                 *)
(***************************************************************************)
C5_Step ==
  Called("begin") /\ regs[WHO_AM_I] # 107 =>
    /\ err' # "none"
    /\ ret'.kind = "throw"
    /\ err' # "io" => /\ err' = "not_found"
                      /\ ret'.v = <<regs[WHO_AM_I], 107>>
                      /\ busLog' = << <<"R", WHO_AM_I, regs[WHO_AM_I]>> >>
    /\ Writes(busLog') = <<>>
    /\ regs' = regs
    /\ drv' = drv

C5_BeginRejectsWrongIdentity == [][C5_Step]_vars

C5_Witness ==
  /\ lastOp = "begin"
  /\ err = "not_found"
  /\ ret = Thrown(<<0, 107>>)
  /\ accelEnabled /\ gyroEnabled
  /\ regs[CTRL1_XL] = PackAccel(accelODR, accelFS)
  /\ regs[CTRL3_C] = 255

(***************************************************************************)
(* C6.  After begin() succeeds, from any prior state: both subsystems are  *)
(* marked disabled, CTRL1_XL = pack(OFF, stored accel FS), CTRL2_G =       *)
(* pack(OFF, stored gyro FS), CTRL3_C has IF_INC (0x04) and BDU (0x40)     *)
(* set, FIFO_CTRL4 has its low three bits 0, CTRL9_XL has bit 0x02 set,    *)
(* and the stored ODR and full scale are unchanged.                        *)
(***************************************************************************)
C6_Step ==
  Called("begin") /\ err' = "none" =>
    /\ ret' = Bool(TRUE)
    /\ ~accelEnabled' /\ ~gyroEnabled'
    /\ regs'[CTRL1_XL] = PackAccel(0, accelFS)
    /\ regs'[CTRL2_G] = PackGyro(0, gyroFS)
    /\ Bit(regs'[CTRL3_C], 2) = 1 /\ Bit(regs'[CTRL3_C], 6) = 1
    /\ regs'[FIFO_CTRL4] % 8 = 0
    /\ Bit(regs'[CTRL9_XL], 1) = 1
    /\ <<accelODR', accelFS', gyroODR', gyroFS'>> = <<accelODR, accelFS, gyroODR, gyroFS>>

C6_BeginEstablishesBaseline == [][C6_Step]_vars

C6_Witness ==
  /\ lastOp = "begin"
  /\ err = "none"
  /\ ~accelEnabled /\ ~gyroEnabled
  /\ accelFS = G_8 /\ regs[CTRL1_XL] = 12
  /\ gyroFS = DPS_2000 /\ regs[CTRL2_G] = 12
  /\ regs[CTRL3_C] = 255
  /\ regs[FIFO_CTRL4] = 248
  /\ regs[CTRL9_XL] = 2

(***************************************************************************)
(* C7.  A successful begin() does these bus transactions, in this order:   *)
(* read WHO_AM_I; read and write CTRL9_XL (bit 0x02 set); read and write   *)
(* CTRL3_C (bit 0x04 set); read and write CTRL3_C (bit 0x40 set); read and *)
(* write FIFO_CTRL4 (low three bits 0); write CTRL1_XL (ODR OFF); write    *)
(* CTRL2_G (ODR OFF).  The enabled flags change only when the last write   *)
(* has been done: a begin() that throws leaves them as they were.          *)
(***************************************************************************)
SetBit(v, k) == v + (1 - Bit(v, k)) * (2 ^ k)

C7_ExpectedLog ==
  << <<"R", WHO_AM_I, 107>>,
     <<"R", CTRL9_XL, regs[CTRL9_XL]>>,
     <<"W", CTRL9_XL, SetBit(regs[CTRL9_XL], 1)>>,
     <<"R", CTRL3_C, regs[CTRL3_C]>>,
     <<"W", CTRL3_C, SetBit(regs[CTRL3_C], 2)>>,
     <<"R", CTRL3_C, SetBit(regs[CTRL3_C], 2)>>,
     <<"W", CTRL3_C, SetBit(SetBit(regs[CTRL3_C], 2), 6)>>,
     <<"R", FIFO_CTRL4, regs[FIFO_CTRL4]>>,
     <<"W", FIFO_CTRL4, regs[FIFO_CTRL4] - (regs[FIFO_CTRL4] % 8)>>,
     <<"W", CTRL1_XL, PackAccel(0, accelFS)>>,
     <<"W", CTRL2_G, PackGyro(0, gyroFS)>> >>

C7_Step ==
  Called("begin") =>
    /\ err' = "none" => busLog' = C7_ExpectedLog
    /\ err' # "none" => accelEnabled' = accelEnabled /\ gyroEnabled' = gyroEnabled
    /\ accelEnabled' # accelEnabled \/ gyroEnabled' # gyroEnabled =>
         /\ Len(Writes(busLog')) = 6
         /\ busLog'[Len(busLog')] = <<"W", CTRL2_G, regs'[CTRL2_G]>>

C7_BeginWriteOrder == [][C7_Step]_vars

C7_Witness ==
  /\ lastOp = "begin"
  /\ err = "none"
  /\ Len(busLog) = 11
  /\ busLog[5] = <<"W", CTRL3_C, 4>>
  /\ busLog[7] = <<"W", CTRL3_C, 68>>
  /\ busLog[9] = <<"W", FIFO_CTRL4, 248>>
  /\ busLog[11] = <<"W", CTRL2_G, 12>>

(***************************************************************************)
(* C8.  setXFullScale on a disabled subsystem leaves the full-scale bits   *)
(* of the device register at their previous value, and a converted read    *)
(* scales the raw value by the sensitivity of the full scale stored in     *)
(* memory at the time of the read, whatever the device register holds.     *)
(***************************************************************************)
\* the signed 16-bit number with the low 16 bits of x
Wrap16(x) == ((x + 32768) % 65536) - 32768
ScaledBy(vec, s) ==
  [kind |-> "vec", v |-> <<Wrap16(vec[1]) * s.num, Wrap16(vec[2]) * s.num,
                           Wrap16(vec[3]) * s.num>>, den |-> s.den]

C8_Step ==
  /\ ~accelEnabled /\ Called("setAccelFullScale") =>
       AccelFsBits(regs'[CTRL1_XL]) = AccelFsBits(regs[CTRL1_XL])
  /\ ~gyroEnabled /\ Called("setGyroFullScale") =>
       GyroFsBits(regs'[CTRL2_G]) = GyroFsBits(regs[CTRL2_G])
  /\ Called("readAccel") =>
       /\ ret' = ScaledBy(injAccel, AccelSensitivity(accelFS))
       /\ regs' = regs /\ drv' = drv
  /\ Called("readGyro") =>
       /\ ret' = ScaledBy(injGyro, GyroSensitivity(gyroFS))
       /\ regs' = regs /\ drv' = drv

C8_ConvertedReadUsesStoredFullScale == [][C8_Step]_vars

C8_Witness ==
  /\ lastOp = "readAccel"
  /\ regs[CTRL3_C] = 68
  /\ ~accelEnabled
  /\ accelFS = G_8 /\ AccelFsBits(regs[CTRL1_XL]) = G_2
  /\ injAccel[1] = -32768
  /\ ret = Scaled(-7995392, 62220, -6230784, 1000)
  /\ gyroFS = DPS_4000 /\ GyroFsBits(regs[CTRL2_G]) = DPS_2000

(***************************************************************************)
(* C9.  After setRawAccelData(x, y, z) (setRawGyroData) the registers from *)
(* 0x28 (0x22) hold each component low byte first; readRawAccel()          *)
(* (readRawGyro()) does one 6-byte block read there and returns, for every *)
(* component within -32768..32767, exactly the component; the converted    *)
(* read returns it times the sensitivity of the stored full scale.         *)
(***************************************************************************)
InRange16(x) == -32768 <= x /\ x <= 32767
LittleEndianAt(base, vec) ==
  \A i \in 1..3 :
    /\ regs[base + 2 * (i - 1)] = vec[i] % 256
    /\ regs[base + 2 * (i - 1) + 1] = (vec[i] \div 256) % 256
RoundTrip(vec, mult) ==
  \A i \in 1..3 : InRange16(vec[i]) => ret.v[i] = vec[i] * mult

C9_ReadReturnsInjectedVector ==
  /\ LittleEndianAt(40, injAccel)
  /\ LittleEndianAt(34, injGyro)
  /\ lastOp = "readRawAccel" =>
       /\ busLog = << <<"B", 40, 6>> >>
       /\ ret.kind = "raw" /\ Len(ret.v) = 3
       /\ RoundTrip(injAccel, 1)
  /\ lastOp = "readRawGyro" =>
       /\ busLog = << <<"B", 34, 6>> >>
       /\ ret.kind = "raw" /\ Len(ret.v) = 3
       /\ RoundTrip(injGyro, 1)
  /\ lastOp = "readAccel" =>
       /\ busLog = << <<"B", 40, 6>> >>
       /\ ret.kind = "vec" /\ ret.den = AccelSensitivity(accelFS).den
       /\ RoundTrip(injAccel, AccelSensitivity(accelFS).num)
  /\ lastOp = "readGyro" =>
       /\ busLog = << <<"B", 34, 6>> >>
       /\ ret.kind = "vec" /\ ret.den = GyroSensitivity(gyroFS).den
       /\ RoundTrip(injGyro, GyroSensitivity(gyroFS).num)

C9_Witness ==
  /\ lastOp = "readRawGyro"
  /\ injGyro = <<255, 40000, -32768>>
  /\ ret = Raw(255, -25536, -32768)
  /\ injAccel = <<-32768, 255, 40000>>

(***************************************************************************)
(* C10.  reset() reads CTRL3_C, writes it back with bit 0 set, then polls  *)
(* CTRL3_C at most 100 times and always ends: it returns at the first      *)
(* poll that reads bit 0 clear, the 100th included, and throws a timeout   *)
(* exactly when all 100 polls read bit 0 set.                              *)
(***************************************************************************)
PollCount == Len(busLog) - 2
PollSawSet(i) == Bit(busLog[i + 2][3], 0) = 1

C10_ResetLog ==
  lastOp = "reset" =>
    /\ PollCount >= 0 /\ PollCount <= 100
    /\ busLog[1][1] = "R" /\ busLog[1][2] = 18
    /\ busLog[2] = <<"W", 18, SetBit(busLog[1][3], 0)>>
    /\ \A i \in 1..PollCount : busLog[i + 2][1] = "R" /\ busLog[i + 2][2] = 18
    /\ \A i \in 1..(PollCount - 1) : PollSawSet(i)
    /\ pc = "reset_poll" =>
         /\ \A i \in 1..PollCount : PollSawSet(i)
         /\ timeout = 100 - PollCount
         /\ err = "none"
    /\ pc = "idle" =>
         /\ PollCount >= 1
         /\ err \in {"none", "timeout"}
         /\ err = "none" <=> ~PollSawSet(PollCount)
         /\ err = "timeout" <=> (PollCount = 100 /\ \A i \in 1..100 : PollSawSet(i))

C10_ResetTerminates == []C10_ResetLog /\ ((pc # "idle") ~> (pc = "idle"))

C10_Witness ==
  /\ lastOp = "reset"
  /\ pc = "idle"
  /\ err = "none"
  /\ PollCount = 100
  /\ regs[CTRL3_C] = 68

(***************************************************************************)
(* SpecUninit: the driver before any successful begin().  The transport    *)
(* throws on the identity read of every begin() attempted, so that no      *)
(* state of this specification follows a begin() that succeeded.           *)
(***************************************************************************)
NextUninit ==
  \/ Begin(1)
  \/ EnableAccel(0)
  \/ DisableAccel(0)
  \/ \E odr \in AccelODRArgs : SetAccelODR(odr, 0)
  \/ \E fs \in AccelFSSet : SetAccelFullScale(fs, 0)
  \/ EnableGyro(0)
  \/ DisableGyro(0)
  \/ \E odr \in GyroODRArgs : SetGyroODR(odr, 0)
  \/ \E fs \in GyroFSSet : SetGyroFullScale(fs, 0)

SpecUninit == InitDefault /\ [][NextUninit]_vars

\* the writes of a call that go to a config register
ConfigWrites(log) == SelectSeq(log, LAMBDA e : e[1] = "W" /\ e[2] \in {CTRL1_XL, CTRL2_G})
EnableAndSetOps ==
  {"enableAccel", "enableGyro", "setAccelODR", "setAccelFullScale",
   "setGyroODR", "setGyroFullScale"}

(***************************************************************************)
(* C11.  Until begin() has succeeded, no call of enableAccel, enableGyro,  *)
(* setXODR or setXFullScale marks a subsystem enabled or writes a config   *)
(* register on the bus.  (The code has no such guard: enableAccel() on a   *)
(* freshly constructed driver writes CTRL1_XL and sets the flag.)          *)
(***************************************************************************)
C11_Step ==
  pc = "idle" /\ lastOp' \in EnableAndSetOps =>
    /\ ~accelEnabled' /\ ~gyroEnabled'
    /\ ConfigWrites(busLog') = <<>>

C11_OnlyBeginLeavesUninitialized == [][C11_Step]_vars

(***************************************************************************)
(* close(): hands the call on to the transport; the driver records         *)
(* nothing.  The mock's close() does nothing.                              *)
(***************************************************************************)
Close ==
  /\ pc = "idle"
  /\ closeCalls < MaxCloseCalls
  /\ closeCalls' = closeCalls + 1
  /\ lastOp' = "close"
  /\ busLog' = <<>>
  /\ err' = "none"
  /\ ret' = Void
  /\ UNCHANGED <<regs, drv, loop, inj>>

(***************************************************************************)
(* SpecClose: the driver's lifetime, close() included.                     *)
(***************************************************************************)
NextClose ==
  \/ Begin(0)
  \/ EnableAccel(0)
  \/ DisableAccel(0)
  \/ \E fs \in AccelFSSet : SetAccelFullScale(fs, 0)
  \/ EnableGyro(0)
  \/ ReadRawAccel(0)
  \/ Close

SpecClose == InitDefault /\ [][NextClose]_vars

(***************************************************************************)
(* C12.  Once close() has been called, every later driver operation, a     *)
(* second close() included, is rejected: it throws, does no bus            *)
(* transaction, changes no register, and the transport's close() is not    *)
(* invoked again.  (The code keeps no closed state: every method runs      *)
(* after close() as before it, and each close() reaches the transport.)    *)
(***************************************************************************)
C12_Step ==
  closeCalls >= 1 =>
    /\ err' # "none"
    /\ busLog' = <<>>
    /\ regs' = regs
    /\ closeCalls' = closeCalls

C12_ClosedRejectsEverything == [][C12_Step]_vars

(***************************************************************************)
(* SpecConfigFault: the configuration methods over a transport that may    *)
(* throw on the config-register write of a call.                           *)
(***************************************************************************)
\* a call of one transaction: the transport does not throw (0) or throws on it
WriteFaults == {0, 1}

NextConfigFault ==
  \/ \E f \in WriteFaults : EnableAccel(f)
  \/ \E f \in WriteFaults : DisableAccel(f)
  \/ \E odr \in AccelODRArgs, f \in WriteFaults : SetAccelODR(odr, f)
  \/ \E fs \in AccelFSSet, f \in WriteFaults : SetAccelFullScale(fs, f)
  \/ \E f \in WriteFaults : EnableGyro(f)
  \/ \E f \in WriteFaults : DisableGyro(f)
  \/ \E odr \in GyroODRArgs, f \in WriteFaults : SetGyroODR(odr, f)

SpecConfigFault == InitDefault /\ [][NextConfigFault]_vars

(***************************************************************************)
(* C13.  If the config-register write fails inside enableX, disableX,      *)
(* setXODR or setXFullScale, the stored ODR, stored full scale and enabled *)
(* flags are the same after the call as before it, so that an enabled      *)
(* subsystem's stored settings still equal what the device register holds. *)
(* (The code of setXODR / setXFullScale stores the new value before it     *)
(* writes: a failed write leaves the new value stored.)                    *)
(***************************************************************************)
C13_Step ==
  pc = "idle" /\ err' = "io" =>
    /\ drv' = drv
    /\ regs' = regs
    /\ accelEnabled' => regs'[CTRL1_XL] = PackAccel(accelODR', accelFS')
    /\ gyroEnabled' => regs'[CTRL2_G] = PackGyro(gyroODR', gyroFS')

C13_FailedWriteKeepsState == [][C13_Step]_vars

(***************************************************************************)
(* SpecTransportFault: driver methods over a transport that may throw at   *)
(* any one transaction of a call, the registers holding arbitrary          *)
(* contents.                                                               *)
(***************************************************************************)
\* a call of two transactions: no throw, or a throw on the first or second
ReadWriteFaults == {0, 1, 2}

NextTransportFault ==
  \/ \E f \in FaultPoints : Begin(f)
  \/ \E f \in WriteFaults : EnableAccel(f)
  \/ \E f \in WriteFaults : EnableGyro(f)
  \/ \E f \in WriteFaults : ReadRawAccel(f)
  \/ \E e \in BOOLEAN, f \in ReadWriteFaults : SetBlockDataUpdate(e, f)
  \/ \E r \in {CTRL3_C, FIFO_CTRL4}, v \in ByteSamples : MockWriteByte(r, v)

SpecTransportFault == InitDefault /\ [][NextTransportFault]_vars

\* the register file after the writes of a log have been applied, in order
RECURSIVE ApplyWrites(_, _)
ApplyWrites(rg, log) ==
  IF log = <<>> THEN rg
  ELSE ApplyWrites(IF Head(log)[1] = "W"
                     THEN [rg EXCEPT ![Head(log)[2]] = Head(log)[3]]
                     ELSE rg,
                   Tail(log))

\* the call threw the transport's error after exactly the transactions of
\* log, the last of which is the one that failed
FailedAfter(log) ==
  /\ err' = "io"
  /\ ret' = Thrown(<<>>)
  /\ busLog' = log
  /\ regs' = ApplyWrites(regs, SubSeq(log, 1, Len(log) - 1))
  /\ drv' = drv

(***************************************************************************)
(* C14.  A transport failure in a bus transaction ends the driver          *)
(* operation in progress with the transport's error, and the transaction   *)
(* is not attempted again.  When it happens at step k of begin(), the      *)
(* transactions attempted are exactly the first k of begin()'s sequence,   *)
(* each once; the writes before step k stay applied, nothing of the later  *)
(* steps is done, and the enabled flags (and stored settings) keep their   *)
(* pre-call values.                                                        *)
(***************************************************************************)
C14_BeginStep ==
  \A k \in 1..Len(C7_ExpectedLog) :
    Called("begin") /\ Begin(k) => FailedAfter(SubSeq(C7_ExpectedLog, 1, k))

C14_OtherSteps ==
  /\ Called("enableAccel") /\ EnableAccel(1) =>
       FailedAfter(OneWrite(CTRL1_XL, PackAccel(accelODR, accelFS)))
  /\ Called("enableGyro") /\ EnableGyro(1) =>
       FailedAfter(OneWrite(CTRL2_G, PackGyro(gyroODR, gyroFS)))
  /\ Called("readRawAccel") /\ ReadRawAccel(1) =>
       FailedAfter(<< <<"B", OUTX_L_A, 6>> >>)
  /\ \A e \in BOOLEAN :
       /\ Called("setBlockDataUpdate") /\ SetBlockDataUpdate(e, 1) =>
            FailedAfter(<< <<"R", CTRL3_C, regs[CTRL3_C]>> >>)
       /\ Called("setBlockDataUpdate") /\ SetBlockDataUpdate(e, 2) =>
            FailedAfter(<< <<"R", CTRL3_C, regs[CTRL3_C]>>,
                           <<"W", CTRL3_C,
                             IF e THEN SetBit(regs[CTRL3_C], 6)
                             ELSE regs[CTRL3_C] - 64 * Bit(regs[CTRL3_C], 6)>> >>)

C14_FailureSurfacesNoRetryNoRollback == [][C14_BeginStep /\ C14_OtherSteps]_vars

C14_Witness ==
  /\ lastOp = "begin"
  /\ err = "io"
  /\ Len(busLog) = 8
  /\ busLog[8] = <<"R", FIFO_CTRL4, 255>>
  /\ regs[CTRL9_XL] = 2
  /\ regs[CTRL3_C] = 68
  /\ regs[FIFO_CTRL4] = 255
  /\ accelEnabled /\ gyroEnabled

(***************************************************************************)
(* C15.  The gyroscope full-scale codes are DPS_250 = 0, DPS_125 = 2,      *)
(* DPS_500 = 4, DPS_1000 = 8, DPS_2000 = 12, DPS_4000 = 1, and for every   *)
(* variant stored the low nibble of CTRL2_G after enableGyro() is that     *)
(* literal code: none is truncated or aliased to another.  The             *)
(* accelerometer codes G_2 = 0, G_16 = 1, G_4 = 2, G_8 = 3 appear          *)
(* unchanged in bits 3:2 of CTRL1_XL after enableAccel().                  *)
(***************************************************************************)
C15_GyroStep ==
  Called("enableGyro") =>
    LET nibble == regs'[CTRL2_G] % 16
    IN /\ gyroFS \in {0, 2, 4, 8, 12, 1}
       /\ gyroFS = DPS_250 => nibble = 0
       /\ gyroFS = DPS_125 => nibble = 2
       /\ gyroFS = DPS_500 => nibble = 4
       /\ gyroFS = DPS_1000 => nibble = 8
       /\ gyroFS = DPS_2000 => nibble = 12
       /\ gyroFS = DPS_4000 => nibble = 1
       /\ nibble = gyroFS
       /\ regs'[CTRL2_G] \div 16 = gyroODR

C15_AccelStep ==
  Called("enableAccel") =>
    LET field == (regs'[CTRL1_XL] \div 4) % 4
    IN /\ accelFS \in {0, 1, 2, 3}
       /\ accelFS = G_2 => field = 0
       /\ accelFS = G_16 => field = 1
       /\ accelFS = G_4 => field = 2
       /\ accelFS = G_8 => field = 3
       /\ field = accelFS

C15_FullScaleCodesAreLiteral ==
  /\ Cardinality(GyroFSSet) = 6 /\ Cardinality(AccelFSSet) = 4
  /\ [][C15_GyroStep /\ C15_AccelStep]_vars

C15_Witness ==
  /\ lastOp = "enableGyro"
  /\ gyroFS = DPS_2000 /\ gyroODR = 10
  /\ regs[CTRL2_G] = 172
  /\ accelEnabled /\ accelFS = G_8 /\ accelODR = 1
  /\ regs[CTRL1_XL] = 28

(***************************************************************************)
(* The sensitivity getters, as calls.                                      *)
(***************************************************************************)
GetAccelSensitivity ==
  /\ pc = "idle"
  /\ lastOp' = "getAccelSensitivity"
  /\ busLog' = <<>>
  /\ err' = "none"
  /\ ret' = Num(getAccelSensitivity.num, getAccelSensitivity.den)
  /\ UNCHANGED <<regs, drv, loop, inj, life>>

GetGyroSensitivity ==
  /\ pc = "idle"
  /\ lastOp' = "getGyroSensitivity"
  /\ busLog' = <<>>
  /\ err' = "none"
  /\ ret' = Num(getGyroSensitivity.num, getGyroSensitivity.den)
  /\ UNCHANGED <<regs, drv, loop, inj, life>>

NextSensitivity ==
  \/ EnableAccel(0)
  \/ EnableGyro(0)
  \/ \E fs \in AccelFSSet : SetAccelFullScale(fs, 0)
  \/ \E fs \in GyroFSSet : SetGyroFullScale(fs, 0)
  \/ GetAccelSensitivity
  \/ GetGyroSensitivity

SpecSensitivity == InitDefault /\ [][NextSensitivity]_vars

(***************************************************************************)
(* C16.  After setXFullScale(fs) the sensitivity getter returns the        *)
(* documented constant of the variant fs: accelerometer 2/4/8/16 g ->      *)
(* 0.061/0.122/0.244/0.488 mg/LSB, gyroscope 125/250/500/1000/2000/4000    *)
(* dps -> 4.37/8.75/17.5/35/70/140 mdps/LSB, whether or not the subsystem  *)
(* is enabled; 4 g gives exactly 0.122.                                    *)
(***************************************************************************)
C16_AccelDocumented ==
  (G_2 :> 61) @@ (G_4 :> 122) @@ (G_8 :> 244) @@ (G_16 :> 488)
C16_GyroDocumented ==
  (DPS_125 :> 437) @@ (DPS_250 :> 875) @@ (DPS_500 :> 1750) @@
  (DPS_1000 :> 3500) @@ (DPS_2000 :> 7000) @@ (DPS_4000 :> 14000)

C16_Returned ==
  /\ lastOp = "getAccelSensitivity" =>
       /\ ret = Num(C16_AccelDocumented[accelFS], 1000)
       /\ (accelFS = G_4 => ret.v[1] = 122 /\ ret.den = 1000)
  /\ lastOp = "getGyroSensitivity" =>
       ret = Num(C16_GyroDocumented[gyroFS], 100)

C16_SetStep ==
  /\ \A fs \in AccelFSSet :
       Called("setAccelFullScale") /\ SetAccelFullScale(fs, 0) =>
         getAccelSensitivity' = [num |-> C16_AccelDocumented[fs], den |-> 1000]
  /\ \A fs \in GyroFSSet :
       Called("setGyroFullScale") /\ SetGyroFullScale(fs, 0) =>
         getGyroSensitivity' = [num |-> C16_GyroDocumented[fs], den |-> 100]

C16_SensitivityKeyedByVariant == []C16_Returned /\ [][C16_SetStep]_vars

C16_Witness ==
  /\ lastOp = "getAccelSensitivity"
  /\ accelFS = G_4
  /\ ret = Num(122, 1000)
  /\ gyroFS = DPS_125
  /\ accelEnabled

(***************************************************************************)
(* Data-ready status.                                                      *)
(***************************************************************************)
\* variant: the temperature flag is tested with mask 0x08
statusFlags_TempMask8(status) ==
  <<BitAnd(status, 1) # 0, BitAnd(status, 2) # 0, BitAnd(status, 8) # 0>>

\* getStatus(): the three tests of the status byte
statusFlags(status) ==
  <<BitAnd(status, 1) # 0, BitAnd(status, 2) # 0, BitAnd(status, 4) # 0>>

GetStatus(f) ==
  /\ pc = "idle"
  /\ LET b == readByte(NewBus(regs, f), STATUS_REG)
         flags == statusFlags(Get(regs, STATUS_REG))
     IN Observed("getStatus", b, IoError(b),
                 Outcome(b, Status(flags[1], flags[2], flags[3])))
  /\ UNCHANGED <<regs, drv, loop, inj, life>>

IsAccelDataReady(f) ==
  /\ pc = "idle"
  /\ LET b == readByte(NewBus(regs, f), STATUS_REG)
         status == Get(regs, STATUS_REG)
     IN Observed("isAccelDataReady", b, IoError(b),
                 Outcome(b, Flag(BitAnd(status, 1) # 0)))
  /\ UNCHANGED <<regs, drv, loop, inj, life>>

IsGyroDataReady(f) ==
  /\ pc = "idle"
  /\ LET b == readByte(NewBus(regs, f), STATUS_REG)
         status == Get(regs, STATUS_REG)
     IN Observed("isGyroDataReady", b, IoError(b),
                 Outcome(b, Flag(BitAnd(status, 2) # 0)))
  /\ UNCHANGED <<regs, drv, loop, inj, life>>

IsTempDataReady(f) ==
  /\ pc = "idle"
  /\ LET b == readByte(NewBus(regs, f), STATUS_REG)
         status == Get(regs, STATUS_REG)
     IN Observed("isTempDataReady", b, IoError(b),
                 Outcome(b, Flag(BitAnd(status, 4) # 0)))
  /\ UNCHANGED <<regs, drv, loop, inj, life>>

\* MockI2CWrapper.setDataReady
SetDataReady(accel, gyro, temp) ==
  /\ pc = "idle"
  /\ LET s0 == 0
         s1 == IF accel THEN BitOr(s0, 1) ELSE s0
         s2 == IF gyro THEN BitOr(s1, 2) ELSE s1
         s3 == IF temp THEN BitOr(s2, 4) ELSE s2
     IN regs' = [regs EXCEPT ![STATUS_REG] = s3]
  /\ lastOp' = "mock.setDataReady"
  /\ busLog' = <<>>
  /\ err' = "none"
  /\ ret' = Void
  /\ UNCHANGED <<drv, loop, inj, life>>

NextStatus ==
  \/ GetStatus(0)
  \/ IsAccelDataReady(0)
  \/ IsGyroDataReady(0)
  \/ IsTempDataReady(0)
  \/ \E a \in BOOLEAN, g \in BOOLEAN, t \in BOOLEAN : SetDataReady(a, g, t)
  \/ \E s \in 0..255 : MockWriteByte(STATUS_REG, s)

SpecStatus == InitDefault /\ [][NextStatus]_vars

(***************************************************************************)
(* C17.  For every status byte s in 0..255, getStatus() does one read of   *)
(* STATUS_REG (0x1E) and returns accelDataReady = bit 0 of s,              *)
(* gyroDataReady = bit 1, tempDataReady = bit 2, whatever bits 3..7 are    *)
(* (0x07 gives all true, 0x00 all false); isAccelDataReady,                *)
(* isGyroDataReady and isTempDataReady return the same three values, each  *)
(* from one read of STATUS_REG.                                            *)
(***************************************************************************)
C17_OneStatusRead == busLog = << <<"R", 30, regs[30]>> >> /\ err = "none"

C17_StatusDecoding ==
  LET s == regs[30]
  IN /\ lastOp = "getStatus" =>
          /\ C17_OneStatusRead
          /\ ret = Status(Bit(s, 0) = 1, Bit(s, 1) = 1, Bit(s, 2) = 1)
          /\ ret = Status(Bit(s % 8, 0) = 1, Bit(s % 8, 1) = 1, Bit(s % 8, 2) = 1)
          /\ (s = 7 => ret = Status(TRUE, TRUE, TRUE))
          /\ (s = 0 => ret = Status(FALSE, FALSE, FALSE))
     /\ lastOp = "isAccelDataReady" => C17_OneStatusRead /\ ret = Flag(Bit(s, 0) = 1)
     /\ lastOp = "isGyroDataReady" => C17_OneStatusRead /\ ret = Flag(Bit(s, 1) = 1)
     /\ lastOp = "isTempDataReady" => C17_OneStatusRead /\ ret = Flag(Bit(s, 2) = 1)

C17_Witness ==
  /\ lastOp = "getStatus"
  /\ regs[30] = 250
  /\ ret = Status(FALSE, TRUE, FALSE)

(***************************************************************************)
(* Temperature and the combined read.                                      *)
(***************************************************************************)
\* variant: the two bytes are taken as an unsigned number
readRawTemperature_Unsigned(rg) ==
  readInt16LE_Unsigned(BlockData(rg, OUT_TEMP_L, 2), 0)

\* readRawTemperature(): the number decoded from the block read
readRawTemperature(rg) == readInt16LE(BlockData(rg, OUT_TEMP_L, 2), 0)

\* 25 + raw / 256, as the exact fraction (25 * 256 + raw) / 256
Celsius(raw) == Num(25 * 256 + raw, 256)

ReadRawTemperature(f) ==
  /\ pc = "idle"
  /\ LET b == readBlock(NewBus(regs, f), OUT_TEMP_L, 2)
     IN Observed("readRawTemperature", b, IoError(b),
                 Outcome(b, Num(readRawTemperature(regs), 1)))
  /\ UNCHANGED <<regs, drv, loop, inj, life>>

ReadTemperature(f) ==
  /\ pc = "idle"
  /\ LET b == readBlock(NewBus(regs, f), OUT_TEMP_L, 2)
         raw == readRawTemperature(regs)
     IN Observed("readTemperature", b, IoError(b), Outcome(b, Celsius(raw)))
  /\ UNCHANGED <<regs, drv, loop, inj, life>>

\* IMUData: temperature is <<>> when the field is absent
IMU(accel, gyro, temperature) ==
  [kind |-> "imu", v |-> <<accel, gyro, temperature>>, den |-> 1]

\* the argument of readIMU: left out, false or true
IncludeTempArgs == {"omitted", "false", "true"}

\* variant: the temperature is left out only when false is passed
ReadIMU_ReadsUnlessFalse(arg, f) ==
  /\ pc = "idle"
  /\ LET includeTemp == (arg # "false")
         b1 == readBlock(NewBus(regs, f), OUTX_L_A, 6)
         rawA == Decode3(BlockData(regs, OUTX_L_A, 6))
         sA == getAccelSensitivity
         b2 == readBlock(b1, OUTX_L_G, 6)
         rawG == Decode3(BlockData(regs, OUTX_L_G, 6))
         sG == getGyroSensitivity
         b == IF includeTemp THEN readBlock(b2, OUT_TEMP_L, 2) ELSE b2
         data == IMU(Scaled(rawA[1] * sA.num, rawA[2] * sA.num, rawA[3] * sA.num, sA.den),
                     Scaled(rawG[1] * sG.num, rawG[2] * sG.num, rawG[3] * sG.num, sG.den),
                     IF includeTemp THEN <<Celsius(readRawTemperature(regs))>> ELSE <<>>)
     IN Observed("readIMU", b, IoError(b), Outcome(b, data))
  /\ UNCHANGED <<regs, drv, loop, inj, life>>

ReadIMU(arg, f) ==
  /\ pc = "idle"
  /\ LET includeTemp == (arg = "true")
         b1 == readBlock(NewBus(regs, f), OUTX_L_A, 6)
         rawA == Decode3(BlockData(regs, OUTX_L_A, 6))
         sA == getAccelSensitivity
         b2 == readBlock(b1, OUTX_L_G, 6)
         rawG == Decode3(BlockData(regs, OUTX_L_G, 6))
         sG == getGyroSensitivity
         b == IF includeTemp THEN readBlock(b2, OUT_TEMP_L, 2) ELSE b2
         data == IMU(Scaled(rawA[1] * sA.num, rawA[2] * sA.num, rawA[3] * sA.num, sA.den),
                     Scaled(rawG[1] * sG.num, rawG[2] * sG.num, rawG[3] * sG.num, sG.den),
                     IF includeTemp THEN <<Celsius(readRawTemperature(regs))>> ELSE <<>>)
     IN Observed("readIMU", b, IoError(b), Outcome(b, data))
  /\ UNCHANGED <<regs, drv, loop, inj, life>>

\* bytes the temperature registers are made to hold
TempBytes == {0, 1, 127, 128, 255}

NextTemp ==
  \/ EnableAccel(0)
  \/ EnableGyro(0)
  \/ \E v \in RawVectors : SetRawAccelData(v[1], v[2], v[3])
  \/ \E r \in {OUT_TEMP_L, OUT_TEMP_L + 1}, v \in TempBytes : MockWriteByte(r, v)
  \/ ReadRawTemperature(0)
  \/ ReadTemperature(0)
  \/ \E arg \in IncludeTempArgs : ReadIMU(arg, 0)

SpecTemp == InitDefault /\ [][NextTemp]_vars

\* the signed 16-bit value of the two temperature registers
TempRaw == Wrap16(regs[32] + 256 * regs[33])
TempReads(log) == SelectSeq(log, LAMBDA e : e[2] \in {32, 33})

(***************************************************************************)
(* C18.  readIMU(false), and readIMU() with the argument left out, returns *)
(* data without a temperature field and reads no temperature register;     *)
(* readIMU(true) always returns the field, read from the temperature       *)
(* registers, whatever the registers hold and whether or not the           *)
(* subsystems are enabled.                                                 *)
(***************************************************************************)
C18_Step ==
  \A arg \in IncludeTempArgs :
    Called("readIMU") /\ ReadIMU(arg, 0) =>
      /\ err' = "none"
      /\ ret'.kind = "imu"
      /\ SubSeq(busLog', 1, 2) = << <<"B", OUTX_L_A, 6>>, <<"B", OUTX_L_G, 6>> >>
      /\ arg \in {"omitted", "false"} =>
           /\ ret'.v[3] = <<>>
           /\ TempReads(busLog') = <<>>
           /\ Len(busLog') = 2
      /\ arg = "true" =>
           /\ Len(ret'.v[3]) = 1
           /\ ret'.v[3][1] = Num(6400 + TempRaw, 256)
           /\ busLog' = << <<"B", OUTX_L_A, 6>>, <<"B", OUTX_L_G, 6>>, <<"B", 32, 2>> >>

C18_TemperatureOnlyOnRequest == [][C18_Step]_vars

C18_Witness ==
  /\ lastOp = "readIMU"
  /\ Len(busLog) = 3
  /\ ret.v[3] = <<Num(6400 - 32768, 256)>>
  /\ ~accelEnabled /\ gyroEnabled
  /\ injAccel = <<255, 40000, -32768>>

(***************************************************************************)
(* C19.  readTemperature() does one 2-byte block read of registers         *)
(* 0x20/0x21 and returns 25 + raw/256, raw being their signed 16-bit       *)
(* little-endian value: raw = 0 gives exactly 25, raw = 256 exactly 26,    *)
(* and bytes 0x00, 0xFF (raw = -256) give 24, below 25;                    *)
(* readRawTemperature() returns raw.                                       *)
(***************************************************************************)
C19_TemperatureConversion ==
  LET lo == regs[32]
      hi == regs[33]
      raw == IF hi >= 128 THEN lo + 256 * hi - 65536 ELSE lo + 256 * hi
  IN /\ lastOp = "readTemperature" =>
          /\ busLog = << <<"B", 32, 2>> >>
          /\ err = "none"
          /\ ret.kind = "num" /\ ret.den = 256
          /\ ret.v[1] = 25 * 256 + raw
          /\ (raw = 0 => ret.v[1] = 25 * ret.den)
          /\ (raw = 256 => ret.v[1] = 26 * ret.den)
          /\ (lo = 0 /\ hi = 255 => ret.v[1] = 24 * ret.den)
          /\ (hi >= 128 => ret.v[1] < 25 * ret.den)
     /\ lastOp = "readRawTemperature" =>
          /\ busLog = << <<"B", 32, 2>> >>
          /\ ret = Num(raw, 1)
          /\ raw >= -32768 /\ raw <= 32767

C19_Witness ==
  /\ lastOp = "readTemperature"
  /\ regs[32] = 0 /\ regs[33] = 255
  /\ ret = Num(6144, 256)

(***************************************************************************)
(* Low-level register access.                                              *)
(***************************************************************************)
Buf(bytes) == [kind |-> "buf", v |-> bytes, den |-> 1]

ReadRegister(register, f) ==
  /\ pc = "idle"
  /\ LET b == readByte(NewBus(regs, f), register)
     IN Observed("readRegister", b, IoError(b), Outcome(b, Num(Get(regs, register), 1)))
  /\ UNCHANGED <<regs, drv, loop, inj, life>>

\* variant: a write to CTRL1_XL is taken over into the stored settings
WriteRegister_TracksConfig(register, value, f) ==
  /\ pc = "idle"
  /\ LET b == writeByte(NewBus(regs, f), register, value)
     IN /\ regs' = b.regs
        /\ Observed("writeRegister", b, IoError(b), Outcome(b, Void))
  /\ accelODR' = (IF register = CTRL1_XL THEN BitAnd(Shr(value, 4), 15) ELSE accelODR)
  /\ UNCHANGED <<accelFS, accelEnabled, gyroState, loop, inj, life>>

WriteRegister(register, value, f) ==
  /\ pc = "idle"
  /\ LET b == writeByte(NewBus(regs, f), register, value)
     IN /\ regs' = b.regs
        /\ Observed("writeRegister", b, IoError(b), Outcome(b, Void))
  /\ UNCHANGED <<drv, loop, inj, life>>

ReadRegisters(register, length, f) ==
  /\ pc = "idle"
  /\ LET b == readBlock(NewBus(regs, f), register, length)
     IN Observed("readRegisters", b, IoError(b),
                 Outcome(b, Buf(BlockData(regs, register, length))))
  /\ UNCHANGED <<regs, drv, loop, inj, life>>

\* registers and values the callers pass
RegisterArgs == {CTRL1_XL, CTRL2_G, CTRL3_C}
ValueArgs == {0, 76, 255, 511}
LengthArgs == {1, 2}

NextLowLevel ==
  \/ EnableAccel(0)
  \/ DisableAccel(0)
  \/ EnableGyro(0)
  \/ \E fs \in AccelFSSet : SetAccelFullScale(fs, 0)
  \/ \E r \in RegisterArgs : ReadRegister(r, 0)
  \/ \E r \in RegisterArgs, v \in ValueArgs : WriteRegister(r, v, 0)
  \/ \E r \in RegisterArgs, n \in LengthArgs : ReadRegisters(r, n, 0)

SpecLowLevel == InitDefault /\ [][NextLowLevel]_vars

(***************************************************************************)
(* C20.  writeRegister(r, v), for any register r (CTRL1_XL and CTRL2_G     *)
(* included), does one write of v to r and changes that device register    *)
(* only; readRegister and readRegisters do one read and write nothing.     *)
(* None of them changes the stored ODR, the stored full scale or the       *)
(* enabled flags, in any driver state.                                     *)
(***************************************************************************)
C20_WriteStep ==
  \A r \in RegisterArgs, v \in ValueArgs :
    Called("writeRegister") /\ WriteRegister(r, v, 0) =>
      /\ busLog' = OneWrite(r, v)
      /\ regs' = [regs EXCEPT ![r] = v % 256]
      /\ drv' = drv
      /\ err' = "none"

C20_ReadStep ==
  /\ \A r \in RegisterArgs :
       Called("readRegister") /\ ReadRegister(r, 0) =>
         /\ busLog' = << <<"R", r, regs[r]>> >>
         /\ ret' = Num(regs[r], 1)
         /\ regs' = regs /\ drv' = drv
  /\ \A r \in RegisterArgs, n \in LengthArgs :
       Called("readRegisters") /\ ReadRegisters(r, n, 0) =>
         /\ busLog' = << <<"B", r, n>> >>
         /\ ret' = Buf([i \in 1..n |->
                         IF r + i - 1 \in DOMAIN regs THEN regs[r + i - 1] ELSE 0])
         /\ regs' = regs /\ drv' = drv

C20_LowLevelBypassesState == [][C20_WriteStep /\ C20_ReadStep]_vars

C20_Witness ==
  /\ lastOp = "writeRegister"
  /\ busLog = OneWrite(CTRL1_XL, 511)
  /\ regs[CTRL1_XL] = 255
  /\ accelEnabled /\ accelODR = 4 /\ accelFS = G_4
  /\ gyroEnabled /\ regs[CTRL2_G] = 76

(***************************************************************************)
(* The configuration methods as functions of the driver and device state,  *)
(* for stating what two calls in a row give.  A state is the register file *)
(* with the six driver fields; a call is <<method, argument>>.             *)
(***************************************************************************)
Now ==
  [regs |-> regs, accelODR |-> accelODR, accelFS |-> accelFS,
   accelEnabled |-> accelEnabled, gyroODR |-> gyroODR, gyroFS |-> gyroFS,
   gyroEnabled |-> gyroEnabled]

AccelCalls ==
  {<<"enableAccel", 0>>, <<"disableAccel", 0>>}
    \cup {<<"setAccelODR", odr>> : odr \in AccelODRArgs}
    \cup {<<"setAccelFullScale", fs>> : fs \in AccelFSSet}

GyroCalls ==
  {<<"enableGyro", 0>>, <<"disableGyro", 0>>}
    \cup {<<"setGyroODR", odr>> : odr \in GyroODRArgs}
    \cup {<<"setGyroFullScale", fs>> : fs \in GyroFSSet}

AccelWritten(st, odr, fs) == writeAccelConfig(NewBus(st.regs, 0), odr, fs).regs
GyroWritten(st, odr, fs) == writeGyroConfig(NewBus(st.regs, 0), odr, fs).regs

After(call, st) ==
  CASE call[1] = "enableAccel" ->
         [st EXCEPT !.regs = AccelWritten(st, st.accelODR, st.accelFS),
                    !.accelEnabled = TRUE]
    [] call[1] = "disableAccel" ->
         [st EXCEPT !.regs = AccelWritten(st, AccelODR_OFF, st.accelFS),
                    !.accelEnabled = FALSE]
    [] call[1] = "setAccelODR" ->
         [st EXCEPT !.accelODR = call[2],
                    !.regs = IF st.accelEnabled
                               THEN AccelWritten(st, call[2], st.accelFS) ELSE @]
    [] call[1] = "setAccelFullScale" ->
         [st EXCEPT !.accelFS = call[2],
                    !.regs = IF st.accelEnabled
                               THEN AccelWritten(st, st.accelODR, call[2]) ELSE @]
    [] call[1] = "enableGyro" ->
         [st EXCEPT !.regs = GyroWritten(st, st.gyroODR, st.gyroFS),
                    !.gyroEnabled = TRUE]
    [] call[1] = "disableGyro" ->
         [st EXCEPT !.regs = GyroWritten(st, GyroODR_OFF, st.gyroFS),
                    !.gyroEnabled = FALSE]
    [] call[1] = "setGyroODR" ->
         [st EXCEPT !.gyroODR = call[2],
                    !.regs = IF st.gyroEnabled
                               THEN GyroWritten(st, call[2], st.gyroFS) ELSE @]
    [] call[1] = "setGyroFullScale" ->
         [st EXCEPT !.gyroFS = call[2],
                    !.regs = IF st.gyroEnabled
                               THEN GyroWritten(st, st.gyroODR, call[2]) ELSE @]

AccelOpNames == {"enableAccel", "disableAccel", "setAccelODR", "setAccelFullScale"}
GyroOpNames == {"enableGyro", "disableGyro", "setGyroODR", "setGyroFullScale"}
OnRegister(log, r) == SelectSeq(log, LAMBDA e : e[2] = r)

(***************************************************************************)
(* C21.  enableAccel, disableAccel, setAccelODR and setAccelFullScale      *)
(* never write CTRL2_G and never change the gyroscope's stored ODR, stored *)
(* full scale or enabled flag, and the gyroscope operations never write    *)
(* CTRL1_XL or change the accelerometer's; so an accelerometer call        *)
(* followed by a gyroscope call leaves the same driver and device state    *)
(* as the two calls in the other order.                                    *)
(***************************************************************************)
C21_Frame ==
  /\ pc = "idle" /\ lastOp' \in AccelOpNames =>
       /\ OnRegister(busLog', CTRL2_G) = <<>>
       /\ regs'[CTRL2_G] = regs[CTRL2_G]
       /\ gyroODR' = gyroODR /\ gyroFS' = gyroFS /\ gyroEnabled' = gyroEnabled
  /\ pc = "idle" /\ lastOp' \in GyroOpNames =>
       /\ OnRegister(busLog', CTRL1_XL) = <<>>
       /\ regs'[CTRL1_XL] = regs[CTRL1_XL]
       /\ accelODR' = accelODR /\ accelFS' = accelFS /\ accelEnabled' = accelEnabled

\* each call of a method does to the state what After says
C21_CallIsAfter ==
  pc = "idle" /\ lastOp' \in (AccelOpNames \cup GyroOpNames) =>
    LET arg == CASE lastOp' = "setAccelODR" -> accelODR'
                 [] lastOp' = "setAccelFullScale" -> accelFS'
                 [] lastOp' = "setGyroODR" -> gyroODR'
                 [] lastOp' = "setGyroFullScale" -> gyroFS'
                 [] OTHER -> 0
    IN Now' = After(<<lastOp', arg>>, Now)

C21_EitherOrder ==
  \A a \in AccelCalls, g \in GyroCalls :
    After(g, After(a, Now)) = After(a, After(g, Now))

C21_SubsystemsIndependent ==
  /\ []C21_EitherOrder
  /\ [][C21_Frame /\ C21_CallIsAfter]_vars

C21_Witness ==
  /\ lastOp = "setGyroFullScale"
  /\ accelEnabled /\ accelODR = 11 /\ accelFS = G_8 /\ regs[CTRL1_XL] = 188
  /\ gyroEnabled /\ gyroODR = 10 /\ gyroFS = DPS_125 /\ regs[CTRL2_G] = 162

(***************************************************************************)
(* SpecReady: the caller calls begin() first, and then configures and      *)
(* reads in any order (begin() again included).  The mock transport never  *)
(* throws and its identity register is right, so the first begin()         *)
(* succeeds; there are no low-level writes and no reset.                   *)
(***************************************************************************)
BeginCalled == lastOp # "withI2C"

NextReady ==
  \/ Begin(0)
  \/ BeginCalled /\ EnableAccel(0)
  \/ BeginCalled /\ DisableAccel(0)
  \/ BeginCalled /\ \E odr \in AccelODRArgs : SetAccelODR(odr, 0)
  \/ BeginCalled /\ \E fs \in AccelFSSet : SetAccelFullScale(fs, 0)
  \/ BeginCalled /\ EnableGyro(0)
  \/ BeginCalled /\ DisableGyro(0)
  \/ BeginCalled /\ \E odr \in GyroODRArgs : SetGyroODR(odr, 0)
  \/ BeginCalled /\ \E fs \in GyroFSSet : SetGyroFullScale(fs, 0)
  \/ BeginCalled /\ ReadRawAccel(0)
  \/ BeginCalled /\ ReadGyro(0)
  \/ BeginCalled /\ GetStatus(0)

SpecReady == InitAnyFS /\ [][NextReady]_vars

(***************************************************************************)
(* C22.  In every state reached after a successful begin() by enable,      *)
(* disable, setODR, setFullScale and read operations: the config register  *)
(* of an enabled subsystem is pack(stored ODR, stored full scale), and the *)
(* config register of a disabled subsystem has ODR nibble 0.               *)
(***************************************************************************)
C22_ConfigRegistersTrackState ==
  BeginCalled =>
    /\ err = "none"
    /\ accelEnabled => regs[CTRL1_XL] = PackAccel(accelODR, accelFS)
    /\ ~accelEnabled => OdrNibble(regs[CTRL1_XL]) = 0
    /\ gyroEnabled => regs[CTRL2_G] = PackGyro(gyroODR, gyroFS)
    /\ ~gyroEnabled => OdrNibble(regs[CTRL2_G]) = 0

C22_Witness ==
  /\ lastOp = "readGyro"
  /\ regs[CTRL3_C] = 68
  /\ accelEnabled /\ accelODR = 11 /\ accelFS = G_16 /\ regs[CTRL1_XL] = 180
  /\ ~gyroEnabled /\ gyroODR = 10 /\ gyroFS = DPS_500 /\ regs[CTRL2_G] = 8

(***************************************************************************)
(* The remaining read-modify-write setters.                                *)
(***************************************************************************)
HIGH_PERFORMANCE == 0
LOW_POWER_NORMAL == 1
OperatingModeSet == {HIGH_PERFORMANCE, LOW_POWER_NORMAL}
FIFOModeSet == Range(FIFOModeMembers)

\* variant: the mode bit is written alone, without the bits read
setAccelOperatingMode_WritesBitOnly(b, mode) ==
  writeByte(readByte(b, CTRL6_C), CTRL6_C,
            IF mode = HIGH_PERFORMANCE THEN 0 ELSE 16)

setAccelOperatingMode(b, mode) ==
  LET ctrl6 == Get(b.regs, CTRL6_C)
  IN writeByte(readByte(b, CTRL6_C), CTRL6_C,
               IF mode = HIGH_PERFORMANCE
                 THEN BitAnd(ctrl6, NotMask(16)) ELSE BitOr(ctrl6, 16))

setGyroOperatingMode(b, mode) ==
  LET ctrl7 == Get(b.regs, CTRL7_G)
  IN writeByte(readByte(b, CTRL7_G), CTRL7_G,
               IF mode = HIGH_PERFORMANCE
                 THEN BitAnd(ctrl7, NotMask(128)) ELSE BitOr(ctrl7, 128))

SetFIFOMode(mode, f) ==
  /\ pc = "idle"
  /\ LET b == setFIFOMode(NewBus(regs, f), mode)
     IN /\ regs' = b.regs
        /\ Observed("setFIFOMode", b, IoError(b), Outcome(b, Void))
  /\ UNCHANGED <<drv, loop, inj, life>>

SetAccelOperatingMode(mode, f) ==
  /\ pc = "idle"
  /\ LET b == setAccelOperatingMode(NewBus(regs, f), mode)
     IN /\ regs' = b.regs
        /\ Observed("setAccelOperatingMode", b, IoError(b), Outcome(b, Void))
  /\ UNCHANGED <<drv, loop, inj, life>>

SetGyroOperatingMode(mode, f) ==
  /\ pc = "idle"
  /\ LET b == setGyroOperatingMode(NewBus(regs, f), mode)
     IN /\ regs' = b.regs
        /\ Observed("setGyroOperatingMode", b, IoError(b), Outcome(b, Void))
  /\ UNCHANGED <<drv, loop, inj, life>>

\* the registers the setters modify
SetterRegs == {CTRL3_C, FIFO_CTRL4, CTRL6_C, CTRL7_G}

\* the test harness loading these registers of the mock with one byte
\* (MockI2CWrapper.writeByte on each)
LoadRegisters(v) ==
  /\ pc = "idle"
  /\ regs' = [r \in DOMAIN regs |-> IF r \in SetterRegs THEN AndMask(v, 255) ELSE regs[r]]
  /\ lastOp' = "mock.load"
  /\ busLog' = <<>>
  /\ err' = "none"
  /\ ret' = Void
  /\ UNCHANGED <<drv, loop, inj, life>>

(***************************************************************************)
(* SpecSetters: the harness loads the registers with any byte, the caller  *)
(* calls one setter, and the harness loads again.                          *)
(***************************************************************************)
Loaded == lastOp = "mock.load"

NextSetters ==
  \/ \E v \in 0..255 : LoadRegisters(v)
  \/ \E e \in BOOLEAN : Loaded /\ SetBlockDataUpdate(e, 0)
  \/ \E e \in BOOLEAN : Loaded /\ SetAutoIncrement(e, 0)
  \/ \E m \in FIFOModeSet : Loaded /\ SetFIFOMode(m, 0)
  \/ \E m \in OperatingModeSet : Loaded /\ SetAccelOperatingMode(m, 0)
  \/ \E m \in OperatingModeSet : Loaded /\ SetGyroOperatingMode(m, 0)

SpecSetters == InitDefault /\ [][NextSetters]_vars

\* new is old with the bits of mask replaced by field; all else unchanged
OnlyField(r, mask, field) ==
  /\ \A q \in DOMAIN regs : q # r => regs'[q] = regs[q]
  /\ regs'[r] \in 0..255
  /\ \A k \in 0..7 :
       Bit(regs'[r], k) = (IF Bit(mask, k) = 1 THEN Bit(field, k) ELSE Bit(regs[r], k))
  /\ busLog' = << <<"R", r, regs[r]>>, <<"W", r, regs'[r]>> >>
  /\ drv' = drv
  /\ err' = "none"

(***************************************************************************)
(* C23.  Each read-modify-write setter changes only its own bit field and  *)
(* leaves every other bit of the register and every other register as it   *)
(* was, for every prior register value 0..255: setBlockDataUpdate bit 0x40 *)
(* of CTRL3_C, setAutoIncrement bit 0x04 of CTRL3_C, setFIFOMode bits 2:0  *)
(* of FIFO_CTRL4, setAccelOperatingMode bit 0x10 of CTRL6_C,               *)
(* setGyroOperatingMode bit 0x80 of CTRL7_G; the value written is within   *)
(* 0..255.                                                                 *)
(***************************************************************************)
C23_Step ==
  /\ \A e \in BOOLEAN :
       /\ Called("setBlockDataUpdate") /\ SetBlockDataUpdate(e, 0) =>
            OnlyField(18, 64, IF e THEN 64 ELSE 0)
       /\ Called("setAutoIncrement") /\ SetAutoIncrement(e, 0) =>
            OnlyField(18, 4, IF e THEN 4 ELSE 0)
  /\ \A m \in {0, 1, 3, 4, 6, 7} :
       Called("setFIFOMode") /\ SetFIFOMode(m, 0) => OnlyField(10, 7, m)
  /\ \A m \in {0, 1} :
       /\ Called("setAccelOperatingMode") /\ SetAccelOperatingMode(m, 0) =>
            OnlyField(21, 16, 16 * m)
       /\ Called("setGyroOperatingMode") /\ SetGyroOperatingMode(m, 0) =>
            OnlyField(22, 128, 128 * m)

C23_SettersChangeOnlyTheirField == [][C23_Step]_vars

C23_Witness ==
  /\ lastOp = "setAccelOperatingMode"
  /\ busLog = << <<"R", CTRL6_C, 239>>, <<"W", CTRL6_C, 255>> >>
  /\ regs[CTRL6_C] = 255
  /\ regs[CTRL3_C] = 239 /\ regs[FIFO_CTRL4] = 239 /\ regs[CTRL7_G] = 239

====
